---- MODULE Spec2Model ----
(***************************************************************************)
(* Approval workflow of the triplanai-marketing bot: the SQLite-backed     *)
(* store (rate_limits, processed_posts, pending_replies, daily_counts),    *)
(* the Telegram webhook handler (approve / approve_crosspost / decline /   *)
(* mark_done), the scan tick (runScan) and the hourly cleanup sweep.       *)
(*                                                                         *)
(* Every await on a network call (answerCallbackQuery, postRedditReply,    *)
(* postTwitterReply, updateMessageStatus, scanReddit, generateReply,       *)
(* sendApprovalRequest, sendNotification) is a suspension point: the code  *)
(* between two awaits is one atomic action, and the return of the awaited  *)
(* call (resolved or rejected) is the input of the next action.            *)
(***************************************************************************)
EXTENDS Integers, Sequences, FiniteSets, TLC

VARIABLES
    now,              \* Date.now(), in ms since a UTC midnight
    rate_limits,      \* table rate_limits: platform -> row
    processed_posts,  \* table processed_posts: post_id -> row
    pending_replies,  \* table pending_replies: post_id -> row
    daily_counts,     \* table daily_counts: <<platform, day>> -> row
    hs,               \* in-flight invocations of handleTelegramWebhook
    scans,            \* in-flight invocations of runScan
    nScans,           \* scan ticks started so far
    log               \* the calls made on the store, as the unit runs record them

vars == <<now, rate_limits, processed_posts, pending_replies, daily_counts,
          hs, scans, nScans, log>>

store == <<rate_limits, processed_posts, pending_replies, daily_counts>>

----------------------------------------------------------------------------
(* Bounds of the model *)

MaxCounted == 4
MaxScans == 1
MaxClockSteps == 3
MaxQuotaCalls == 5
MaxQuotaClockSteps == 5
MaxRateOver == 1
MaxDedupClockSteps == 16
MaxTickRequests == 16
MaxGenPosts == 3
MaxRankBatch == 3
MaxLimit == 3
MaxScoreBatch == 2
MaxFeedTicks == 2

\* the clock advances in steps of 12 hours
ClockStep == 12 * 60 * 60 * 1000

\* concurrent deliveries of webhook updates, concurrent scan ticks
Handlers == {1, 2}
Scanners == {"cron"}

----------------------------------------------------------------------------
(* Program constants *)

PENDING_TTL_MS == 24 * 60 * 60 * 1000
DAILY_TTL_MS == 48 * 60 * 60 * 1000
PROCESSED_TTL_DAYS == 7
DAY_MS == 24 * 60 * 60 * 1000
MAX_PER_DAY == 3
RANK_LIMIT == 20
CANDIDATES_PER_PLATFORM == 3
REPLIES_PER_SCAN == 3
MIN_RELEVANCE == 40

platforms == <<"reddit", "twitter">>

PLATFORM_RATE_LIMITS ==
    [reddit    |-> [requestsPerWindow |-> 60,  windowSeconds |-> 60],
     twitter   |-> [requestsPerWindow |-> 15,  windowSeconds |-> 900],
     instagram |-> [requestsPerWindow |-> 200, windowSeconds |-> 3600]]

Actions == {"approve", "approve_crosspost", "decline", "mark_done"}

----------------------------------------------------------------------------
(* The posts the scanner collaborators can return.  A post id is          *)
(* `platform:externalId`, modelled as the pair <<platform, externalId>>.  *)
(* Of the text of a post (title and content) the model keeps what the     *)
(* ranker reads from it: keywords, the number of TRIATHLON_KEYWORDS it    *)
(* includes, and questions, the number of QUESTION_PATTERNS it matches.   *)
(* ageMinutes is Date.now() - createdAt when the post is ranked.  The     *)
(* scanners return relevanceScore 0; rankPosts assigns it.                *)

Posts ==
    { [id |-> <<"reddit", "r1">>,  platform |-> "reddit", keywords |-> 5,
       engagementScore |-> 9, ageMinutes |-> 10, questions |-> 1,
       relevanceScore |-> 0],
      [id |-> <<"twitter", "t1">>, platform |-> "twitter", keywords |-> 4,
       engagementScore |-> 9, ageMinutes |-> 60, questions |-> 1,
       relevanceScore |-> 0] }

PostIds == { p.id : p \in Posts }

\* what the scanner of a platform can return: its posts in feed order
FeedOf(platform) ==
    IF platform = "reddit"
    THEN { <<>>, << CHOOSE p \in Posts : p.id = <<"reddit", "r1">> >> }
    ELSE { <<>>, << CHOOSE p \in Posts : p.id = <<"twitter", "t1">> >> }

----------------------------------------------------------------------------
(* Tables: a table is a function from the keys of its rows *)

Upsert(t, k, row) == [q \in (DOMAIN t) \cup {k} |-> IF q = k THEN row ELSE t[q]]

Delete(t, k) == [q \in (DOMAIN t) \ {k} |-> t[q]]

\* a sweep that also removes the rows expiring at this very millisecond
DeleteExpiredInclusive(t, n) == [q \in {k \in DOMAIN t : t[k].expires_at > n} |-> t[q]]

DeleteExpired(t, n) == [q \in {k \in DOMAIN t : ~(t[k].expires_at < n)} |-> t[q]]

EmptyTable == [q \in {} |-> 0]

----------------------------------------------------------------------------
(* services/rate-limiter *)

canMakeRequestInclusive(t, platform, n) ==
    LET limits == PLATFORM_RATE_LIMITS[platform]
    IN  IF platform \notin DOMAIN t \/ t[platform].expires_at < n
        THEN TRUE
        ELSE IF n - t[platform].last_request_at > limits.windowSeconds * 1000
             THEN TRUE
             ELSE t[platform].request_count <= limits.requestsPerWindow

canMakeRequest(t, platform, n) ==
    LET limits == PLATFORM_RATE_LIMITS[platform]
    IN  IF platform \notin DOMAIN t \/ t[platform].expires_at < n
        THEN TRUE
        ELSE IF n - t[platform].last_request_at > limits.windowSeconds * 1000
             THEN TRUE
             ELSE t[platform].request_count < limits.requestsPerWindow

recordRequestKeepsCount(t, platform, n) ==
    LET limits == PLATFORM_RATE_LIMITS[platform]
        expiresAt == n + limits.windowSeconds * 1000
    IN  IF platform \notin DOMAIN t
        THEN Upsert(t, platform, [last_request_at |-> n, request_count |-> 1,
                                  expires_at |-> expiresAt])
        ELSE IF \/ t[platform].expires_at < n
                \/ n - t[platform].last_request_at > limits.windowSeconds * 1000
             THEN Upsert(t, platform, [last_request_at |-> n,
                                       request_count |-> t[platform].request_count + 1,
                                       expires_at |-> expiresAt])
             ELSE [t EXCEPT ![platform].request_count = @ + 1]

recordRequest(t, platform, n) ==
    LET limits == PLATFORM_RATE_LIMITS[platform]
        expiresAt == n + limits.windowSeconds * 1000
    IN  IF \/ platform \notin DOMAIN t
           \/ t[platform].expires_at < n
           \/ n - t[platform].last_request_at > limits.windowSeconds * 1000
        THEN Upsert(t, platform, [last_request_at |-> n, request_count |-> 1,
                                  expires_at |-> expiresAt])
        ELSE [t EXCEPT ![platform].request_count = @ + 1]

\* a lookup that finds no marker
isProcessedNever(t, postId, n) == FALSE

isProcessedExpiredOnly(t, postId, n) ==
    postId \in DOMAIN t /\ t[postId].expires_at < n

getRemainingRequests(t, platform, n) ==
    LET limits == PLATFORM_RATE_LIMITS[platform]
    IN  IF \/ platform \notin DOMAIN t
           \/ t[platform].expires_at < n
           \/ n - t[platform].last_request_at > limits.windowSeconds * 1000
        THEN limits.requestsPerWindow
        ELSE IF limits.requestsPerWindow - t[platform].request_count > 0
             THEN limits.requestsPerWindow - t[platform].request_count
             ELSE 0

isProcessed(t, postId, n) ==
    postId \in DOMAIN t /\ t[postId].expires_at > n

markProcessedTtlKeepsFirst(t, postId, ttlDays, n) ==
    IF postId \in DOMAIN t THEN t
    ELSE Upsert(t, postId, [processed_at |-> n,
                            expires_at |-> n + ttlDays * 24 * 60 * 60 * 1000])

\* markProcessed(postId, ttlDays)
markProcessedTtl(t, postId, ttlDays, n) ==
    Upsert(t, postId, [processed_at |-> n,
                       expires_at |-> n + ttlDays * 24 * 60 * 60 * 1000])

\* markProcessed(postId), ttlDays at its default
markProcessed(t, postId, n) == markProcessedTtl(t, postId, PROCESSED_TTL_DAYS, n)

storePendingReplyLongTtl(t, reply, n) ==
    Upsert(t, reply.postId,
           [platform |-> reply.platform, reply_text |-> reply.replyText,
            created_at |-> reply.createdAt, expires_at |-> n + DAILY_TTL_MS])

storePendingReplyKeepsFirst(t, reply, n) ==
    IF reply.postId \in DOMAIN t THEN t
    ELSE Upsert(t, reply.postId,
                [platform |-> reply.platform, reply_text |-> reply.replyText,
                 created_at |-> reply.createdAt, expires_at |-> n + PENDING_TTL_MS])

storePendingReply(t, reply, n) ==
    Upsert(t, reply.postId,
           [platform |-> reply.platform, reply_text |-> reply.replyText,
            created_at |-> reply.createdAt, expires_at |-> n + PENDING_TTL_MS])

\* null is <<>>, a found reply is <<reply>>
getPendingReplyNoExpiry(t, postId, n) ==
    IF postId \in DOMAIN t
    THEN << [postId |-> postId, platform |-> t[postId].platform,
             replyText |-> t[postId].reply_text,
             createdAt |-> t[postId].created_at] >>
    ELSE <<>>

getPendingReply(t, postId, n) ==
    IF postId \in DOMAIN t /\ t[postId].expires_at > n
    THEN << [postId |-> postId, platform |-> t[postId].platform,
             replyText |-> t[postId].reply_text,
             createdAt |-> t[postId].created_at] >>
    ELSE <<>>

deletePendingReply(t, postId) == Delete(t, postId)

listPendingReplies(t, n) ==
    { postId \in DOMAIN t : t[postId].expires_at > n }

Today(n) == n \div DAY_MS

\* a count read from the latest unexpired row of the platform, whatever its day
getDailyPostCountAnyDay(t, platform, n) ==
    LET keys == { k \in DOMAIN t : k[1] = platform /\ t[k].expires_at > n }
    IN  IF keys = {} THEN 0
        ELSE t[CHOOSE k \in keys : \A j \in keys : k[2] >= j[2]].count

getDailyPostCount(t, platform, n) ==
    LET key == <<platform, Today(n)>>
    IN  IF key \in DOMAIN t /\ t[key].expires_at > n THEN t[key].count ELSE 0

incrementDailyPostCount(t, platform, n) ==
    LET key == <<platform, Today(n)>>
        newCount == getDailyPostCount(t, platform, n) + 1
    IN  Upsert(t, key, [count |-> newCount, expires_at |-> n + DAILY_TTL_MS])

canPostTodayInclusive(t, platform, maxPerDay, n) ==
    getDailyPostCount(t, platform, n) <= maxPerDay

canPostToday(t, platform, maxPerDay, n) ==
    getDailyPostCount(t, platform, n) < maxPerDay

\* the confirmed posts counted in the table, over all platforms and days
RECURSIVE SumCounts(_, _)
SumCounts(t, keys) ==
    IF keys = {} THEN 0
    ELSE LET k == CHOOSE x \in keys : TRUE IN t[k].count + SumCounts(t, keys \ {k})

Counted(t) == SumCounts(t, DOMAIN t)

----------------------------------------------------------------------------
(* handlers/webhook: one invocation of handleTelegramWebhook.             *)
(* pending, action, postId are the handler's locals; result is what the   *)
(* posting collaborator returned; cross what handleCrossPost met; status  *)
(* is the status handed to updateMessageStatus.  liveAtRead, invoked and  *)
(* incs record what this invocation saw and did: whether the row was      *)
(* stored and unexpired when it was read, whether the posting             *)
(* collaborator was called, and by how much the daily count moved.        *)

IdleHandler ==
    [pc |-> "idle", kind |-> "none", action |-> "none", postId |-> <<>>,
     pending |-> <<>>, liveAtRead |-> FALSE, result |-> "none",
     cross |-> "none", status |-> "none", invoked |-> FALSE, incs |-> 0]

\* the row of postId is stored and its 24 hours have not passed
Live(postId) ==
    postId \in DOMAIN pending_replies /\ now < pending_replies[postId].expires_at

\* the switch of handleTelegramWebhook
HandlerForDeclineApproves(action) ==
    CASE action = "approve" -> "handleApprove"
      [] action = "approve_crosspost" -> "handleApprove"
      [] action = "decline" -> "handleApprove"
      [] action = "mark_done" -> "handleMarkDone"

HandlerForDeclineMarksDone(action) ==
    CASE action = "approve" -> "handleApprove"
      [] action = "approve_crosspost" -> "handleApprove"
      [] action = "decline" -> "handleMarkDone"
      [] action = "mark_done" -> "handleMarkDone"

HandlerFor(action) ==
    CASE action = "approve" -> "handleApprove"
      [] action = "approve_crosspost" -> "handleApprove"
      [] action = "decline" -> "handleDecline"
      [] action = "mark_done" -> "handleMarkDone"

\* the platforms handleApprove has a posting collaborator for
HasPoster(platform) == platform \in {"reddit", "twitter"}

\* postRedditReply rejects when a fetch rejects; postTwitterReply catches
PostOutcomes(platform) ==
    IF platform = "reddit"
    THEN {"success", "failed", "manual", "throw"}
    ELSE {"success", "failed"}

\* by how much the count read for platform differs between two tables
CountDelta(t1, t2, platform) ==
    getDailyPostCount(t2, platform, now) - getDailyPostCount(t1, platform, now)

\* handleTelegramWebhook returns {ok: true}
Return(h) == hs' = [hs EXCEPT ![h] = IdleHandler]

\* POST /webhook/telegram: up to the await of answerCallbackQuery
Receive(h) ==
    /\ hs[h].pc = "idle"
    /\ \A g \in Handlers : g < h => hs[g].pc # "idle"
    /\ Counted(daily_counts) < MaxCounted
    /\ \/ Return(h)
       \/ \E kind \in {"no_data", "invalid"} :
             hs' = [hs EXCEPT ![h] = [IdleHandler EXCEPT !.pc = "answer", !.kind = kind]]
       \/ \E action \in Actions, postId \in PostIds :
             hs' = [hs EXCEPT ![h] = [IdleHandler EXCEPT !.pc = "answer",
                                         !.kind = "decision", !.action = action,
                                         !.postId = postId]]
    /\ UNCHANGED <<now, store, scans, nScans, log>>

\* answerCallbackQuery rejected with no catch around it: the exception
\* leaves handleTelegramWebhook
AnswerThrowsEscapes(h) ==
    /\ hs[h].pc = "answer"
    /\ hs' = [hs EXCEPT ![h].pc = "threw"]
    /\ UNCHANGED <<now, store, scans, nScans, log>>

\* answerCallbackQuery rejected: the catch of handleTelegramWebhook
AnswerThrows(h) ==
    /\ hs[h].pc = "answer"
    /\ Return(h)
    /\ UNCHANGED <<now, store, scans, nScans, log>>

\* answerCallbackQuery resolved, data or message missing or undecodable
AnswerNoDecision(h) ==
    /\ hs[h].pc = "answer"
    /\ hs[h].kind \in {"no_data", "invalid"}
    /\ Return(h)
    /\ UNCHANGED <<now, store, scans, nScans, log>>

\* answerCallbackQuery resolved: decode, getPendingReply, the switch, and
\* the called handler up to its first await
AnswerDecision(h) ==
    /\ hs[h].pc = "answer"
    /\ hs[h].kind = "decision"
    /\ LET postId == hs[h].postId
           pending == getPendingReply(pending_replies, postId, now)
           me == [hs[h] EXCEPT !.pending = pending, !.liveAtRead = Live(postId)]
           target == HandlerFor(hs[h].action)
       IN  IF pending = <<>>
           THEN /\ hs' = [hs EXCEPT ![h] = [me EXCEPT !.pc = "status", !.status = "failed"]]
                /\ UNCHANGED daily_counts
           ELSE CASE target = "handleApprove" ->
                       IF HasPoster(pending[1].platform)
                       THEN /\ hs' = [hs EXCEPT ![h] = [me EXCEPT !.pc = "post", !.invoked = TRUE]]
                            /\ UNCHANGED daily_counts
                       ELSE /\ hs' = [hs EXCEPT ![h] = [me EXCEPT !.pc = "status",
                                                        !.result = "failed", !.status = "failed"]]
                            /\ UNCHANGED daily_counts
                  [] target = "handleDecline" ->
                       /\ hs' = [hs EXCEPT ![h] = [me EXCEPT !.pc = "status", !.status = "declined"]]
                       /\ UNCHANGED daily_counts
                  [] target = "handleMarkDone" ->
                       LET platform == postId[1]
                           counts == incrementDailyPostCount(daily_counts, platform, now)
                       IN  /\ daily_counts' = counts
                           /\ hs' = [hs EXCEPT ![h] = [me EXCEPT !.pc = "status", !.status = "done",
                                        !.incs = @ + CountDelta(daily_counts, counts, platform)]]
    /\ UNCHANGED <<now, rate_limits, processed_posts, pending_replies, scans, nScans, log>>

\* the posting collaborator returned or threw: the rest of handleApprove up
\* to its next await
PostReturn(h) ==
    /\ hs[h].pc = "post"
    /\ \E outcome \in PostOutcomes(hs[h].pending[1].platform) :
          LET me == [hs[h] EXCEPT !.result = outcome]
              platform == hs[h].pending[1].platform
              counts == incrementDailyPostCount(daily_counts, platform, now)
          IN  CASE outcome = "throw" ->
                     /\ Return(h)
                     /\ UNCHANGED daily_counts
                [] outcome = "manual" ->
                     /\ hs' = [hs EXCEPT ![h] = [me EXCEPT !.pc = "status", !.status = "manual"]]
                     /\ UNCHANGED daily_counts
                [] outcome = "failed" ->
                     /\ hs' = [hs EXCEPT ![h] = [me EXCEPT !.pc = "status", !.status = "failed"]]
                     /\ UNCHANGED daily_counts
                [] outcome = "success" ->
                     /\ daily_counts' = counts
                     /\ hs' = [hs EXCEPT ![h] =
                           [me EXCEPT !.incs = @ + CountDelta(daily_counts, counts, platform),
                                      !.pc = IF hs[h].action = "approve_crosspost"
                                             THEN "crosspost" ELSE "status",
                                      !.status = IF hs[h].action = "approve_crosspost"
                                                 THEN "none" ELSE "posted"]]
    /\ UNCHANGED <<now, rate_limits, processed_posts, pending_replies, scans, nScans, log>>

CrossPostReturnBlocks(h) ==
    /\ hs[h].pc = "crosspost"
    /\ \E outcome \in {"ok", "failed"} :
          IF outcome = "ok"
          THEN hs' = [hs EXCEPT ![h] = [@ EXCEPT !.pc = "status", !.status = "posted",
                                                 !.cross = outcome]]
          ELSE Return(h)
    /\ UNCHANGED <<now, store, scans, nScans, log>>

\* handleCrossPost returned: it catches every failure of its two posts
CrossPostReturn(h) ==
    /\ hs[h].pc = "crosspost"
    /\ \E outcome \in {"ok", "failed"} :
          hs' = [hs EXCEPT ![h] = [@ EXCEPT !.pc = "status", !.status = "posted",
                                            !.cross = outcome]]
    /\ UNCHANGED <<now, store, scans, nScans, log>>

\* the statuses after which the handlers call deletePendingReply
Finalizing == {"posted", "declined", "done"}

\* updateMessageStatus resolved: the rest of the handler
StatusResolves(h) ==
    /\ hs[h].pc = "status"
    /\ IF hs[h].status \in Finalizing
       THEN /\ pending_replies' = deletePendingReply(pending_replies, hs[h].postId)
            /\ Return(h)
       ELSE /\ UNCHANGED pending_replies
            /\ Return(h)
    /\ UNCHANGED <<now, rate_limits, processed_posts, daily_counts, scans, nScans, log>>

\* updateMessageStatus rejected: the catch of handleTelegramWebhook
StatusThrows(h) ==
    /\ hs[h].pc = "status"
    /\ Return(h)
    /\ UNCHANGED <<now, store, scans, nScans, log>>

----------------------------------------------------------------------------
(* services/ranking.  The sub-scores are real numbers in the code; here    *)
(* they are fixed-point numbers, SCALE units to the point, and Math.log10 *)
(* and Math.exp are tables over the arguments the inputs produce, rounded *)
(* to the unit.                                                           *)

SCALE == 1000

Min(a, b) == IF a < b THEN a ELSE b
Max(a, b) == IF a > b THEN a ELSE b

\* lib/keywords RANKING_WEIGHTS, in hundredths
RANKING_WEIGHTS ==
    [twitter   |-> [keyword |-> 25, engagement |-> 25, recency |-> 40, question |-> 10],
     reddit    |-> [keyword |-> 35, engagement |-> 30, recency |-> 20, question |-> 15],
     instagram |-> [keyword |-> 35, engagement |-> 30, recency |-> 20, question |-> 15]]

\* Math.log10(x) in thousandths
Log10 == (1 :> 0) @@ (10 :> 1000) @@ (51 :> 1708) @@ (101 :> 2004)

\* 100 * Math.exp(-k / 720) in SCALE units: k is the age in minutes over a
\* 12-hour scale, six times the age in minutes over a 2-hour scale
Exp100 == (60 :> 92004) @@ (240 :> 71653) @@ (360 :> 60653) @@
          (1440 :> 13534) @@ (2160 :> 4979)

calculateKeywordScore(post) ==
    LET matches == post.keywords
        baseScore == (Min(matches, 5) * 100 * SCALE) \div 5
        bonusMultiplier == 100 + Min(matches * 5, 25)
    IN  Min(100 * SCALE, (baseScore * bonusMultiplier) \div 100)

calculateEngagementScore(post, maxEngagement) ==
    IF maxEngagement = 0 THEN 50 * SCALE
    ELSE LET logScore == Log10[post.engagementScore + 1]
             logMax == Log10[maxEngagement + 1]
         IN  (logScore * 100 * SCALE) \div logMax

\* calculateRecencyScore without the floor of Math.max(10, ...)
calculateRecencyScoreNoFloor(post) ==
    IF post.platform = "twitter"
    THEN IF post.ageMinutes < 30 THEN 100 * SCALE
         ELSE IF post.ageMinutes > 240 THEN 10 * SCALE
         ELSE Exp100[6 * post.ageMinutes]
    ELSE IF post.ageMinutes < 60 THEN 100 * SCALE
         ELSE IF post.ageMinutes > 48 * 60 THEN 10 * SCALE
         ELSE Exp100[post.ageMinutes]

calculateRecencyScore(post) ==
    IF post.platform = "twitter"
    THEN IF post.ageMinutes < 30 THEN 100 * SCALE
         ELSE IF post.ageMinutes > 240 THEN 10 * SCALE
         ELSE Max(10 * SCALE, Exp100[6 * post.ageMinutes])
    ELSE IF post.ageMinutes < 60 THEN 100 * SCALE
         ELSE IF post.ageMinutes > 48 * 60 THEN 10 * SCALE
         ELSE Max(10 * SCALE, Exp100[post.ageMinutes])

calculateQuestionScore(post) ==
    LET matches == post.questions
    IN  Min(100 * SCALE, (Min(matches, 3) * 100 * SCALE) \div 3)

\* the weighted sum, then Math.round
calculateRelevanceScore(post, maxEngagement) ==
    LET weights == RANKING_WEIGHTS[post.platform]
        totalScore == calculateKeywordScore(post) * weights.keyword
                      + calculateEngagementScore(post, maxEngagement) * weights.engagement
                      + calculateRecencyScore(post) * weights.recency
                      + calculateQuestionScore(post) * weights.question
    IN  (totalScore + 50 * SCALE) \div (100 * SCALE)

\* Math.max(...posts.map((p) => p.engagementScore)) of a batch with a post
MaxEngagement(posts) ==
    LET all == { posts[k].engagementScore : k \in 1..Len(posts) }
    IN  CHOOSE m \in all : \A e \in all : e <= m

\* the loop of rankPosts that assigns relevanceScore
Scored(posts) ==
    LET maxEngagement == MaxEngagement(posts)
    IN  [k \in 1..Len(posts) |->
            [posts[k] EXCEPT !.relevanceScore =
                calculateRelevanceScore(posts[k], maxEngagement)]]

Take(seq, k) == SubSeq(seq, 1, IF Len(seq) < k THEN Len(seq) ELSE k)

\* a sort that puts a post before the posts of equal score already placed
RECURSIVE InsertDescTiesFirst(_, _)
InsertDescTiesFirst(sorted, x) ==
    IF sorted = <<>> THEN <<x>>
    ELSE IF Head(sorted).relevanceScore > x.relevanceScore
         THEN <<Head(sorted)>> \o InsertDescTiesFirst(Tail(sorted), x)
         ELSE <<x>> \o sorted

RECURSIVE InsertDesc(_, _)
InsertDesc(sorted, x) ==
    IF sorted = <<>> THEN <<x>>
    ELSE IF Head(sorted).relevanceScore >= x.relevanceScore
         THEN <<Head(sorted)>> \o InsertDesc(Tail(sorted), x)
         ELSE <<x>> \o sorted

\* Array.prototype.sort((a, b) => b.relevanceScore - a.relevanceScore): stable
RECURSIVE SortDesc(_)
SortDesc(posts) ==
    IF posts = <<>> THEN <<>>
    ELSE InsertDesc(SortDesc(SubSeq(posts, 1, Len(posts) - 1)), posts[Len(posts)])

rankPosts(posts, limit) ==
    IF Len(posts) = 0 THEN <<>> ELSE Take(SortDesc(Scored(posts)), limit)

\* filterForReply that also drops the posts scoring exactly minRelevance
filterForReplyStrict(posts, minRelevance) ==
    LET Keep(post) == post.relevanceScore > minRelevance /\ post.questions > 0
    IN  SelectSeq(posts, Keep)

\* QUESTION_PATTERNS.some(...) is a match of at least one pattern
filterForReply(posts, minRelevance) ==
    LET Keep(post) == ~(post.relevanceScore < minRelevance) /\ post.questions > 0
    IN  SelectSeq(posts, Keep)

----------------------------------------------------------------------------
(* handlers/scan: one invocation of runScan *)

IdleScan ==
    [pc |-> "idle", tick |-> 0, i |-> 0, results |-> <<>>, allCandidates |-> <<>>,
     topCandidates |-> <<>>, gi |-> 0, replies |-> <<>>, ri |-> 0]

NewResult(platform) ==
    [platform |-> platform, postsScanned |-> 0, postsNew |-> 0, postsRanked |-> 0,
     repliesGenerated |-> 0, approvalsSent |-> 0, errors |-> 0]

\* the head of scanPlatform with the rate-limit check only
SkippedRateOnly(rl, dc, platform) ==
    ~canMakeRequest(rl, platform, now)

\* the two budget checks at the head of scanPlatform
Skipped(rl, dc, platform) ==
    \/ ~canMakeRequest(rl, platform, now)
    \/ ~canPostToday(dc, platform, MAX_PER_DAY, now)

\* the first platform from index i on whose scanner is called
RECURSIVE SkipTo(_, _, _)
SkipTo(i, rl, dc) ==
    IF i > Len(platforms) THEN i
    ELSE IF Skipped(rl, dc, platforms[i]) THEN SkipTo(i + 1, rl, dc) ELSE i

SkippedResults(i, j) == [k \in 1..(j - i) |-> NewResult(platforms[i + k - 1])]

RECURSIVE MarkAll(_, _, _)
\* a platform scan that leaves the marking of what it ranked for later
MarkNone(t, posts, n) == t

MarkAll(t, posts, n) ==
    IF posts = <<>> THEN t
    ELSE MarkAll(markProcessed(t, Head(posts).id, n), Tail(posts), n)

\* runScan after the loop over the platforms without the sort
AfterPlatformsUnsorted(sc) ==
    IF Len(sc.allCandidates) > 0
    THEN [sc EXCEPT !.pc = "generate", !.i = 0, !.allCandidates = <<>>,
                    !.topCandidates = Take(sc.allCandidates, REPLIES_PER_SCAN),
                    !.gi = 1]
    ELSE IdleScan

\* runScan after the loop over the platforms without the slice to 3
AfterPlatformsNoCap(sc) ==
    IF Len(sc.allCandidates) > 0
    THEN [sc EXCEPT !.pc = "generate", !.i = 0, !.allCandidates = <<>>,
                    !.topCandidates = SortDesc(sc.allCandidates),
                    !.gi = 1]
    ELSE IdleScan

\* runScan after the loop over the platforms, up to the first await of
\* generateReplies
AfterPlatforms(sc) ==
    IF Len(sc.allCandidates) > 0
    THEN [sc EXCEPT !.pc = "generate", !.i = 0, !.allCandidates = <<>>,
                    !.topCandidates = Take(SortDesc(sc.allCandidates), REPLIES_PER_SCAN),
                    !.gi = 1]
    ELSE IdleScan

\* the loop of runScan from platform i on, up to the next await
ContinueScan(sc, i, rl, dc) ==
    LET j == SkipTo(i, rl, dc)
        sk == [sc EXCEPT !.results = @ \o SkippedResults(i, j)]
    IN  IF j > Len(platforms)
        THEN AfterPlatforms(sk)
        ELSE [sk EXCEPT !.pc = "fetch", !.i = j]

UpdateResult(results, platform) ==
    LET hit == { k \in 1..Len(results) : results[k].platform = platform }
        first == CHOOSE k \in hit : \A m \in hit : k <= m
    IN  IF hit = {} THEN results
        ELSE [results EXCEPT ![first].repliesGenerated = @ + 1,
                             ![first].approvalsSent = @ + 1]

PendingOf(reply) ==
    [postId |-> reply.postId, platform |-> reply.platform,
     replyText |-> reply.replyText, createdAt |-> now]

\* a cron tick or POST /test/scan: runScan up to its first await
ScanStart(s) ==
    /\ scans[s].pc = "idle"
    /\ nScans < MaxScans
    /\ nScans' = nScans + 1
    /\ scans' = [scans EXCEPT ![s] =
          ContinueScan([IdleScan EXCEPT !.tick = nScans + 1], 1, rate_limits, daily_counts)]
    /\ UNCHANGED <<now, store, hs, log>>

FetchThrowsAborts(s) ==
    /\ scans[s].pc = "fetch"
    /\ scans' = [scans EXCEPT ![s] = IdleScan]
    /\ UNCHANGED <<now, store, hs, nScans, log>>

\* the scanner collaborator threw: the catch of scanPlatform
FetchThrows(s) ==
    /\ scans[s].pc = "fetch"
    /\ LET sc == scans[s]
           result == [NewResult(platforms[sc.i]) EXCEPT !.errors = 1]
       IN  scans' = [scans EXCEPT ![s] =
              ContinueScan([sc EXCEPT !.results = Append(@, result)], sc.i + 1,
                           rate_limits, daily_counts)]
    /\ UNCHANGED <<now, store, hs, nScans, log>>

\* scanPlatform marking only the posts that qualified for a reply
ScannedMarksQualified(s, posts) ==
    LET sc == scans[s]
        platform == platforms[sc.i]
        rl == recordRequest(rate_limits, platform, now)
        IsNew(post) == ~isProcessed(processed_posts, post.id, now)
        newPosts == SelectSeq(posts, IsNew)
        rankedPosts == rankPosts(newPosts, RANK_LIMIT)
        postsForReply == filterForReply(rankedPosts, MIN_RELEVANCE)
        result == [NewResult(platform) EXCEPT
                      !.postsScanned = Len(posts),
                      !.postsNew = Len(newPosts),
                      !.postsRanked = Len(rankedPosts)]
        sc1 == [sc EXCEPT !.results = Append(@, result),
                          !.allCandidates = @ \o Take(postsForReply, CANDIDATES_PER_PLATFORM)]
    IN  /\ rate_limits' = rl
        /\ processed_posts' = MarkAll(processed_posts, postsForReply, now)
        /\ scans' = [scans EXCEPT ![s] = ContinueScan(sc1, sc.i + 1, rl, daily_counts)]
        /\ UNCHANGED <<now, pending_replies, daily_counts, hs, nScans>>

\* the rest of scanPlatform after the scanner collaborator returned posts,
\* and the loop of runScan up to the next await
Scanned(s, posts) ==
    LET sc == scans[s]
        platform == platforms[sc.i]
        rl == recordRequest(rate_limits, platform, now)
        IsNew(post) == ~isProcessed(processed_posts, post.id, now)
        newPosts == SelectSeq(posts, IsNew)
        rankedPosts == rankPosts(newPosts, RANK_LIMIT)
        postsForReply == filterForReply(rankedPosts, MIN_RELEVANCE)
        result == [NewResult(platform) EXCEPT
                      !.postsScanned = Len(posts),
                      !.postsNew = Len(newPosts),
                      !.postsRanked = Len(rankedPosts)]
        sc1 == [sc EXCEPT !.results = Append(@, result),
                          !.allCandidates = @ \o Take(postsForReply, CANDIDATES_PER_PLATFORM)]
    IN  /\ rate_limits' = rl
        /\ processed_posts' = MarkAll(processed_posts, rankedPosts, now)
        /\ scans' = [scans EXCEPT ![s] = ContinueScan(sc1, sc.i + 1, rl, daily_counts)]
        /\ UNCHANGED <<now, pending_replies, daily_counts, hs, nScans>>

\* the scanner collaborator returned posts
FetchReturns(s) ==
    /\ scans[s].pc = "fetch"
    /\ \E posts \in FeedOf(platforms[scans[s].i]) : Scanned(s, posts)
    /\ UNCHANGED log

\* createGeneratedReply returned or threw: the loop of generateReplies, then
\* the loop of runScan up to the await of the first sendApprovalRequest
GenerateReturn(s) ==
    /\ scans[s].pc = "generate"
    /\ \E outcome \in {"ok", "throw"} :
          LET sc == scans[s]
              post == sc.topCandidates[sc.gi]
              reply == [postId |-> post.id, platform |-> post.platform,
                        replyText |-> sc.tick]
              replies == IF outcome = "ok" THEN Append(sc.replies, reply) ELSE sc.replies
          IN  IF sc.gi < Len(sc.topCandidates)
              THEN /\ scans' = [scans EXCEPT ![s] = [sc EXCEPT !.replies = replies,
                                                               !.gi = @ + 1]]
                   /\ UNCHANGED pending_replies
              ELSE IF replies = <<>>
                   THEN /\ scans' = [scans EXCEPT ![s] = IdleScan]
                        /\ UNCHANGED pending_replies
                   ELSE /\ scans' = [scans EXCEPT ![s] = [sc EXCEPT !.replies = replies,
                                         !.pc = "send", !.topCandidates = <<>>,
                                         !.gi = 0, !.ri = 1]]
                        /\ pending_replies' =
                              storePendingReply(pending_replies, PendingOf(replies[1]), now)
    /\ UNCHANGED <<now, rate_limits, processed_posts, daily_counts, hs, nScans, log>>

\* sendToTelegram without its try/catch, dropping what it stored: a failed
\* delivery removes the candidate and ends runScan
SendReturnAborts(s) ==
    /\ scans[s].pc = "send"
    /\ \E outcome \in {"ok", "failed"} :
          LET sc == scans[s]
              sc1 == [sc EXCEPT !.results = UpdateResult(@, sc.replies[sc.ri].platform)]
          IN  IF outcome = "failed"
              THEN /\ scans' = [scans EXCEPT ![s] = IdleScan]
                   /\ pending_replies' =
                         deletePendingReply(pending_replies, sc.replies[sc.ri].postId)
              ELSE IF sc.ri < Len(sc.replies)
              THEN /\ scans' = [scans EXCEPT ![s] = [sc1 EXCEPT !.ri = @ + 1]]
                   /\ pending_replies' =
                         storePendingReply(pending_replies, PendingOf(sc.replies[sc.ri + 1]), now)
              ELSE /\ scans' = [scans EXCEPT ![s] = [sc1 EXCEPT !.pc = "notify"]]
                   /\ UNCHANGED pending_replies
    /\ UNCHANGED <<now, rate_limits, processed_posts, daily_counts, hs, nScans, log>>

\* sendApprovalRequest returned success or failure, or threw into the catch
\* of sendToTelegram: the rest of sendToTelegram and the loop of runScan up
\* to the next await
SendReturn(s) ==
    /\ scans[s].pc = "send"
    /\ \E outcome \in {"ok", "failed"} :
          LET sc == scans[s]
              sc1 == [sc EXCEPT !.results = UpdateResult(@, sc.replies[sc.ri].platform)]
          IN  IF sc.ri < Len(sc.replies)
              THEN /\ scans' = [scans EXCEPT ![s] = [sc1 EXCEPT !.ri = @ + 1]]
                   /\ pending_replies' =
                         storePendingReply(pending_replies, PendingOf(sc.replies[sc.ri + 1]), now)
              ELSE /\ scans' = [scans EXCEPT ![s] = [sc1 EXCEPT !.pc = "notify"]]
                   /\ UNCHANGED pending_replies
    /\ UNCHANGED <<now, rate_limits, processed_posts, daily_counts, hs, nScans, log>>

\* sendNotification resolved or rejected: runScan returns or rejects
NotifyReturn(s) ==
    /\ scans[s].pc = "notify"
    /\ scans' = [scans EXCEPT ![s] = IdleScan]
    /\ UNCHANGED <<now, store, hs, nScans, log>>

----------------------------------------------------------------------------
(* the clock, and lib/db cleanupExpired on its hourly schedule *)

Quiescent ==
    /\ \A h \in Handlers : hs[h].pc = "idle"
    /\ \A s \in DOMAIN scans : scans[s].pc = "idle"

\* a clock step is 12 hours: no network call stays in flight that long
Advance ==
    /\ Quiescent
    /\ now < MaxClockSteps * ClockStep
    /\ now' = now + ClockStep
    /\ UNCHANGED <<store, hs, scans, nScans, log>>

cleanupExpired ==
    /\ rate_limits' = DeleteExpired(rate_limits, now)
    /\ processed_posts' = DeleteExpired(processed_posts, now)
    /\ pending_replies' = DeleteExpired(pending_replies, now)
    /\ daily_counts' = DeleteExpired(daily_counts, now)
    /\ UNCHANGED <<now, hs, scans, nScans, log>>

----------------------------------------------------------------------------
Init ==
    /\ now = 0
    /\ rate_limits = EmptyTable
    /\ processed_posts = EmptyTable
    /\ pending_replies = EmptyTable
    /\ daily_counts = EmptyTable
    /\ hs = [h \in Handlers |-> IdleHandler]
    /\ scans = [s \in Scanners |-> IdleScan]
    /\ nScans = 0
    /\ log = <<>>

Next ==
    \/ \E h \in Handlers : Receive(h)
    \/ \E h \in Handlers : AnswerThrows(h)
    \/ \E h \in Handlers : AnswerNoDecision(h)
    \/ \E h \in Handlers : AnswerDecision(h)
    \/ \E h \in Handlers : PostReturn(h)
    \/ \E h \in Handlers : CrossPostReturn(h)
    \/ \E h \in Handlers : StatusResolves(h)
    \/ \E h \in Handlers : StatusThrows(h)
    \/ \E s \in Scanners : ScanStart(s)
    \/ \E s \in Scanners : FetchThrows(s)
    \/ \E s \in Scanners : FetchReturns(s)
    \/ \E s \in Scanners : GenerateReturn(s)
    \/ \E s \in Scanners : SendReturn(s)
    \/ \E s \in Scanners : NotifyReturn(s)
    \/ Advance
    \/ cleanupExpired

Spec == Init /\ [][Next]_vars

----------------------------------------------------------------------------
(* Unit runs of services/rate-limiter: the operations are called directly,   *)
(* as rate-limiter.test.ts calls them, under a clock and the hourly sweep;   *)
(* log records the calls that were made.                                     *)

SocialPlatforms == {"reddit", "twitter", "instagram"}

Logged(k) == IF k \in DOMAIN log THEN log[k] ELSE 0

\* the number of calls the log holds
RECURSIVE SumLogged(_)
SumLogged(keys) ==
    IF keys = {} THEN 0
    ELSE LET k == CHOOSE x \in keys : TRUE IN log[k] + SumLogged(keys \ {k})

LoggedCalls == SumLogged(DOMAIN log)

\* the daily quota: log[<<platform, day>>] is the number of calls of
\* incrementDailyPostCount(platform) made on that UTC day
IncrementQuota(platform) ==
    /\ LoggedCalls < MaxQuotaCalls
    /\ daily_counts' = incrementDailyPostCount(daily_counts, platform, now)
    /\ log' = Upsert(log, <<platform, Today(now)>>, Logged(<<platform, Today(now)>>) + 1)
    /\ UNCHANGED <<now, rate_limits, processed_posts, pending_replies, hs, scans, nScans>>

AdvanceQuota ==
    /\ now < MaxQuotaClockSteps * ClockStep
    /\ now' = now + ClockStep
    /\ UNCHANGED <<store, hs, scans, nScans, log>>

NextQuota ==
    \/ \E platform \in SocialPlatforms : IncrementQuota(platform)
    \/ AdvanceQuota
    \/ cleanupExpired

SpecQuota == Init /\ [][NextQuota]_vars

\* the request budget: log[platform] is the rate window of the platform as
\* the calls of recordRequest(platform) define it: when it started and how
\* many calls were made in it
ScannedPlatforms == { platforms[k] : k \in 1..Len(platforms) }

WindowMs(platform) == PLATFORM_RATE_LIMITS[platform].windowSeconds * 1000

Limit(platform) == PLATFORM_RATE_LIMITS[platform].requestsPerWindow

\* the instants of the run: the start, and the last instant inside and the
\* first instant outside the window each platform opened at the start
RateInstants ==
    {0} \cup { WindowMs(platform) : platform \in ScannedPlatforms }
        \cup { WindowMs(platform) + 1 : platform \in ScannedPlatforms }

NoWindow(platform) == platform \notin DOMAIN log

WindowExpired(platform) == now > log[platform].start + WindowMs(platform)

RecordRate(platform) ==
    /\ IF NoWindow(platform) THEN TRUE
       ELSE IF WindowExpired(platform) THEN TRUE
       ELSE log[platform].n < Limit(platform) + MaxRateOver
    /\ rate_limits' = recordRequest(rate_limits, platform, now)
    /\ log' = IF NoWindow(platform) \/ WindowExpired(platform)
              THEN Upsert(log, platform, [start |-> now, n |-> 1])
              ELSE [log EXCEPT ![platform].n = @ + 1]
    /\ UNCHANGED <<now, processed_posts, pending_replies, daily_counts, hs, scans, nScans>>

AdvanceRate ==
    /\ \E t \in RateInstants : t > now /\ now' = t
    /\ UNCHANGED <<store, hs, scans, nScans, log>>

NextRate ==
    \/ \E platform \in ScannedPlatforms : RecordRate(platform)
    \/ AdvanceRate
    \/ cleanupExpired

SpecRate == Init /\ [][NextRate]_vars

\* the processed markers: log[postId] is the last call of
\* markProcessed(postId, ttlDays): when it was made and with which ttlDays
DedupTtlDays == {1, PROCESSED_TTL_DAYS}

MarkDedup(postId, ttlDays) ==
    /\ processed_posts' = markProcessedTtl(processed_posts, postId, ttlDays, now)
    /\ log' = Upsert(log, postId, [at |-> now, ttlDays |-> ttlDays])
    /\ UNCHANGED <<now, rate_limits, pending_replies, daily_counts, hs, scans, nScans>>

AdvanceDedup ==
    /\ now < MaxDedupClockSteps * ClockStep
    /\ now' = now + ClockStep
    /\ UNCHANGED <<store, hs, scans, nScans, log>>

NextDedup ==
    \/ \E postId \in PostIds, ttlDays \in DedupTtlDays : MarkDedup(postId, ttlDays)
    \/ AdvanceDedup
    \/ cleanupExpired

SpecDedup == Init /\ [][NextDedup]_vars

\* the pending replies: log[postId] is the last call of storePendingReply
\* for postId: when it was made, with which reply text, and whether a live
\* candidate was stored for postId when it was made
ReplyTexts == {1, 2}

StorePending(postId, text) ==
    /\ pending_replies' =
          storePendingReply(pending_replies,
                            [postId |-> postId, platform |-> postId[1],
                             replyText |-> text, createdAt |-> now], now)
    /\ log' = Upsert(log, postId, [at |-> now, text |-> text, over |-> Live(postId)])
    /\ UNCHANGED <<now, rate_limits, processed_posts, daily_counts, hs, scans, nScans>>

NextPending ==
    \/ \E postId \in PostIds, text \in ReplyTexts : StorePending(postId, text)
    \/ Advance
    \/ cleanupExpired

SpecPending == Init /\ [][NextPending]_vars

----------------------------------------------------------------------------
(* Overlapping scan ticks: the two cron schedules fire together at 08:00   *)
(* and POST /test/scan starts runScan without waiting for it, so several   *)
(* invocations of runScan can be in flight at once.                        *)

Tickers == {1, 2}

Requests(platform) ==
    IF platform \in DOMAIN rate_limits THEN rate_limits[platform].request_count ELSE 0

InitTicks ==
    /\ now = 0
    /\ rate_limits = EmptyTable
    /\ processed_posts = EmptyTable
    /\ pending_replies = EmptyTable
    /\ daily_counts = EmptyTable
    /\ hs = [h \in Handlers |-> IdleHandler]
    /\ scans = [s \in Tickers |-> IdleScan]
    /\ nScans = 0
    /\ log = <<>>

\* a tick: runScan up to its first await
Tick(s) ==
    /\ scans[s].pc = "idle"
    /\ \A t \in Tickers : t < s => scans[t].pc # "idle"
    /\ \A platform \in ScannedPlatforms : Requests(platform) < MaxTickRequests
    /\ scans' = [scans EXCEPT ![s] =
          ContinueScan([IdleScan EXCEPT !.tick = 1], 1, rate_limits, daily_counts)]
    /\ UNCHANGED <<now, store, hs, nScans, log>>

NextTicks ==
    \/ \E s \in Tickers : Tick(s)
    \/ \E s \in Tickers : FetchThrows(s)
    \/ \E s \in Tickers : FetchReturns(s)
    \/ \E s \in Tickers : GenerateReturn(s)
    \/ \E s \in Tickers : SendReturn(s)
    \/ \E s \in Tickers : NotifyReturn(s)

SpecTicks == InitTicks /\ [][NextTicks]_vars

----------------------------------------------------------------------------
(* Unit run of services/reply-generator generateReplies: one call with a  *)
(* batch of posts.  log holds the call: the batch, the outcome of each    *)
(* createGeneratedReply so far, the replies pushed, and whether the call  *)
(* has returned.                                                          *)

\* the batches of at most MaxGenPosts posts
GenBatches ==
    UNION { [1..k -> Posts] : k \in 0..MaxGenPosts }

\* generateReplies(posts) up to the await of the first createGeneratedReply
GenerateRepliesCall ==
    /\ DOMAIN log = {}
    /\ \E posts \in GenBatches :
          log' = [posts |-> posts, outcomes |-> <<>>, replies |-> <<>>,
                  returned |-> (Len(posts) = 0)]
    /\ UNCHANGED <<now, store, hs, scans, nScans>>

\* a throw of createGeneratedReply ends the loop of generateReplies
CreateGeneratedReplyReturnsAborting ==
    /\ DOMAIN log # {}
    /\ IF DOMAIN log = {} THEN FALSE ELSE
       /\ ~log.returned
       /\ \E outcome \in {"ok", "throw"} :
             LET i == Len(log.outcomes) + 1
                 post == log.posts[i]
                 reply == [postId |-> post.id, platform |-> post.platform,
                           replyText |-> 1]
             IN  log' = [log EXCEPT
                     !.outcomes = Append(@, outcome),
                     !.replies = IF outcome = "ok" THEN Append(@, reply) ELSE @,
                     !.returned = (i = Len(log.posts)) \/ outcome = "throw"]
    /\ UNCHANGED <<now, store, hs, scans, nScans>>

\* createGeneratedReply resolved or threw for the post in turn: the push or
\* the catch, then the next post or the return
CreateGeneratedReplyReturns ==
    /\ DOMAIN log # {}
    /\ IF DOMAIN log = {} THEN FALSE ELSE
       /\ ~log.returned
       /\ \E outcome \in {"ok", "throw"} :
             LET i == Len(log.outcomes) + 1
                 post == log.posts[i]
                 reply == [postId |-> post.id, platform |-> post.platform,
                           replyText |-> 1]
             IN  log' = [log EXCEPT
                     !.outcomes = Append(@, outcome),
                     !.replies = IF outcome = "ok" THEN Append(@, reply) ELSE @,
                     !.returned = (i = Len(log.posts))]
    /\ UNCHANGED <<now, store, hs, scans, nScans>>

NextGenerate ==
    \/ GenerateRepliesCall
    \/ CreateGeneratedReplyReturns

SpecGenerate == Init /\ [][NextGenerate]_vars

----------------------------------------------------------------------------
(* Unit run of services/ranking rankPosts and filterForReply: one batch   *)
(* is ranked, and the ranked posts are filtered.  log holds the batch,    *)
(* the limit, what rankPosts returned, the threshold and what             *)
(* filterForReply returned.                                               *)

RankPost(id, platform, keywords, engagementScore, ageMinutes, questions) ==
    [id |-> <<platform, id>>, platform |-> platform, keywords |-> keywords,
     engagementScore |-> engagementScore, ageMinutes |-> ageMinutes,
     questions |-> questions, relevanceScore |-> 0]

\* posts that tie (a, b), that are no question (c, d), that score low (c)
\* and whose score depends on the engagement of the batch (e, f)
RankPool ==
    { RankPost("a", "reddit", 5, 100, 10, 3),
      RankPost("b", "reddit", 5, 100, 10, 3),
      RankPost("c", "reddit", 0, 0, 3000, 0),
      RankPost("d", "reddit", 5, 100, 10, 0),
      RankPost("e", "twitter", 2, 9, 240, 1),
      RankPost("f", "reddit", 2, 9, 240, 1) }

\* the batches of at most MaxRankBatch posts, no post twice
RankBatches ==
    { b \in UNION { [1..k -> RankPool] : k \in 0..MaxRankBatch } :
         \A i, j \in 1..Len(b) : i # j => b[i] # b[j] }

RankLimits == (0..MaxLimit) \cup {RANK_LIMIT}

Thresholds == {0, MIN_RELEVANCE, 50, 100, 101}

RankBatch ==
    /\ DOMAIN log = {}
    /\ \E posts \in RankBatches, limit \in RankLimits :
          log' = [posts |-> posts, limit |-> limit,
                  ranked |-> rankPosts(posts, limit),
                  filtered |-> FALSE, minRelevance |-> 0, kept |-> <<>>]
    /\ UNCHANGED <<now, store, hs, scans, nScans>>

FilterRanked ==
    /\ DOMAIN log # {}
    /\ IF DOMAIN log = {} THEN FALSE ELSE
       /\ ~log.filtered
       /\ \E minRelevance \in Thresholds :
             log' = [log EXCEPT !.filtered = TRUE, !.minRelevance = minRelevance,
                                !.kept = filterForReply(log.ranked, minRelevance)]
    /\ UNCHANGED <<now, store, hs, scans, nScans>>

NextRank ==
    \/ RankBatch
    \/ FilterRanked

SpecRank == Init /\ [][NextRank]_vars

----------------------------------------------------------------------------
(* Unit run of the scoring of services/ranking: rankPosts scores one      *)
(* batch.  log holds the batch and what rankPosts returned.               *)

\* no, some and more than the capped number of keyword matches
KeywordCounts == {0, 2, 6}

\* engagementScore is a non-negative integer
EngagementScores == {0, 9, 50, 100}

\* under the full-score age of both decays, inside both decays, inside the
\* slow decay only (36 hours, where the decay is under the floor), and past
\* both
AgesMinutes == {10, 60, 240, 2160, 3000}

\* no, one and more than the capped number of question pattern matches
QuestionCounts == {0, 1, 4}

ScorePool ==
    { RankPost("p", platform, keywords, engagementScore, ageMinutes, questions) :
         platform \in SocialPlatforms, keywords \in KeywordCounts,
         engagementScore \in EngagementScores, ageMinutes \in AgesMinutes,
         questions \in QuestionCounts }

ScoreBatches == UNION { [1..k -> ScorePool] : k \in 1..MaxScoreBatch }

ScoreBatch ==
    /\ DOMAIN log = {}
    /\ \E posts \in ScoreBatches :
          log' = [posts |-> posts, ranked |-> rankPosts(posts, RANK_LIMIT)]
    /\ UNCHANGED <<now, store, hs, scans, nScans>>

NextScore == ScoreBatch

SpecScore == Init /\ [][NextScore]_vars

----------------------------------------------------------------------------
(* A tick that starts with budgets used: earlier ticks of the window have *)
(* recorded requests and earlier decisions of the day have moved the      *)
(* daily counts.                                                          *)

\* rate_limits after k calls of recordRequest(platform)
RECURSIVE RecordedTimes(_, _, _)
RecordedTimes(t, platform, k) ==
    IF k = 0 THEN t
    ELSE CHOOSE after \in { recordRequest(before, platform, 0) :
                               before \in { RecordedTimes(t, platform, k - 1) } } : TRUE

\* daily_counts after k calls of incrementDailyPostCount(platform)
RECURSIVE IncrementedTimes(_, _, _)
IncrementedTimes(t, platform, k) ==
    IF k = 0 THEN t
    ELSE CHOOSE after \in { incrementDailyPostCount(before, platform, 0) :
                               before \in { IncrementedTimes(t, platform, k - 1) } } : TRUE

\* no request, one request left, none left
UsedRequests(platform) == {0, Limit(platform) - 1, Limit(platform)}

\* no post, one post left, none left
UsedPosts == {0, MAX_PER_DAY - 1, MAX_PER_DAY}

InitSkip ==
    /\ now = 0
    /\ \E t \in UsedRequests("twitter") :
          rate_limits = RecordedTimes(EmptyTable, "twitter", t)
    /\ processed_posts = EmptyTable
    /\ pending_replies = EmptyTable
    /\ \E r \in UsedPosts, t \in UsedPosts :
          daily_counts = IncrementedTimes(IncrementedTimes(EmptyTable, "reddit", r), "twitter", t)
    /\ hs = [h \in Handlers |-> IdleHandler]
    /\ scans = [s \in Scanners |-> IdleScan]
    /\ nScans = 0
    /\ log = <<>>

NextSkip ==
    \/ \E s \in Scanners : ScanStart(s)
    \/ \E s \in Scanners : FetchThrows(s)
    \/ \E s \in Scanners : FetchReturns(s)
    \/ \E s \in Scanners : GenerateReturn(s)
    \/ \E s \in Scanners : SendReturn(s)
    \/ \E s \in Scanners : NotifyReturn(s)

SpecSkip == InitSkip /\ [][NextSkip]_vars

----------------------------------------------------------------------------
(* Ticks against a forum feed with more posts than one tick presents:     *)
(* posts that qualify for a reply, a post that is no question, a post     *)
(* that scores low, and a feed longer than the ranking window.  log holds *)
(* the number of ticks started and the posts the last scanner call        *)
(* returned.                                                              *)

FeedPosts ==
    << RankPost("q1", "reddit", 5, 100, 10, 1),
       RankPost("q2", "reddit", 5, 50, 10, 1),
       RankPost("q3", "reddit", 5, 9, 10, 1),
       RankPost("q4", "reddit", 5, 0, 10, 1),
       RankPost("n1", "reddit", 5, 100, 10, 0),
       RankPost("l1", "reddit", 0, 0, 3000, 1) >>

\* one post more than the ranking window holds, all of the same score
LongFeedIds ==
    << "n01", "n02", "n03", "n04", "n05", "n06", "n07", "n08", "n09", "n10", 
       "n11", "n12", "n13", "n14", "n15", "n16", "n17", "n18", "n19", "n20", "n21" >>

LongFeed == [k \in 1..Len(LongFeedIds) |-> RankPost(LongFeedIds[k], "reddit", 5, 9, 10, 1)]

\* the posts of FeedPosts at the places in keep, in feed order
RECURSIVE Pick(_, _)
Pick(k, keep) ==
    IF k > Len(FeedPosts) THEN <<>>
    ELSE (IF k \in keep THEN <<FeedPosts[k]>> ELSE <<>>) \o Pick(k + 1, keep)

\* what the scanner of reddit can return: nothing, all or all but one of
\* FeedPosts, or the long feed
RedditFeeds ==
    { Pick(1, keep) : keep \in { c \in SUBSET (1..Len(FeedPosts)) :
                                    Cardinality(c) >= Len(FeedPosts) - 1 } }
        \cup { <<>>, LongFeed }

InitFeed ==
    /\ now = 0
    /\ rate_limits = EmptyTable
    /\ processed_posts = EmptyTable
    /\ pending_replies = EmptyTable
    /\ daily_counts = EmptyTable
    /\ hs = [h \in Handlers |-> IdleHandler]
    /\ scans = [s \in Scanners |-> IdleScan]
    /\ nScans = 0
    /\ log = [ticks |-> 0, posts |-> <<>>]

\* a tick: runScan up to its first await
FeedTick(s) ==
    /\ scans[s].pc = "idle"
    /\ log.ticks < MaxFeedTicks
    /\ log' = [log EXCEPT !.ticks = @ + 1]
    /\ scans' = [scans EXCEPT ![s] =
          ContinueScan([IdleScan EXCEPT !.tick = log.ticks + 1], 1,
                       rate_limits, daily_counts)]
    /\ UNCHANGED <<now, store, hs, nScans>>

\* the scanner collaborator returned posts
FeedReturns(s) ==
    /\ scans[s].pc = "fetch"
    /\ \E posts \in (IF platforms[scans[s].i] = "reddit" THEN RedditFeeds
                     ELSE FeedOf(platforms[scans[s].i])) :
          /\ Scanned(s, posts)
          /\ log' = [log EXCEPT !.posts = posts]

NextFeed ==
    \/ \E s \in Scanners : FeedTick(s)
    \/ \E s \in Scanners : FetchThrows(s)
    \/ \E s \in Scanners : FeedReturns(s)
    \/ \E s \in Scanners : GenerateReturn(s)
    \/ \E s \in Scanners : SendReturn(s)
    \/ \E s \in Scanners : NotifyReturn(s)

SpecFeed == InitFeed /\ [][NextFeed]_vars

\* the sweep against the same calls without it: the tables are the execution
\* in which cleanupExpired runs at arbitrary points, log holds the tables of
\* the same execution without any sweep. Every behaviour exercises one key of
\* one table (log.focus), the tables being independent of one another
SweepHorizons ==
    { WindowMs(platform) : platform \in ScannedPlatforms }
        \cup {PENDING_TTL_MS, DAILY_TTL_MS, PROCESSED_TTL_DAYS * DAY_MS}

SweepInstants == {0} \cup SweepHorizons \cup { h + 1 : h \in SweepHorizons }

SweepFoci ==
    { <<"rate_limits", platform>> : platform \in ScannedPlatforms }
        \cup { <<"processed_posts", postId>> : postId \in PostIds }
        \cup { <<"pending_replies", postId>> : postId \in PostIds }
        \cup { <<"daily_counts", platform>> : platform \in ScannedPlatforms }

InitSweep ==
    /\ now = 0
    /\ rate_limits = EmptyTable
    /\ processed_posts = EmptyTable
    /\ pending_replies = EmptyTable
    /\ daily_counts = EmptyTable
    /\ hs = [h \in Handlers |-> IdleHandler]
    /\ scans = [s \in Scanners |-> IdleScan]
    /\ nScans = 0
    /\ \E focus \in SweepFoci :
          log = [focus |-> focus, rate_limits |-> EmptyTable,
                 processed_posts |-> EmptyTable, pending_replies |-> EmptyTable,
                 daily_counts |-> EmptyTable]

SweepRecord(platform) ==
    /\ log.focus = <<"rate_limits", platform>>
    /\ platform \in DOMAIN rate_limits
          => rate_limits[platform].request_count <= Limit(platform)
    /\ rate_limits' = recordRequest(rate_limits, platform, now)
    /\ log' = [log EXCEPT !.rate_limits = recordRequest(@, platform, now)]
    /\ UNCHANGED <<now, processed_posts, pending_replies, daily_counts, hs, scans, nScans>>

SweepMark(postId) ==
    /\ log.focus = <<"processed_posts", postId>>
    /\ processed_posts' = markProcessed(processed_posts, postId, now)
    /\ log' = [log EXCEPT !.processed_posts = markProcessed(@, postId, now)]
    /\ UNCHANGED <<now, rate_limits, pending_replies, daily_counts, hs, scans, nScans>>

SweepStore(postId, text) ==
    LET reply == [postId |-> postId, platform |-> postId[1],
                  replyText |-> text, createdAt |-> now]
    IN  /\ log.focus = <<"pending_replies", postId>>
        /\ pending_replies' = storePendingReply(pending_replies, reply, now)
        /\ log' = [log EXCEPT !.pending_replies = storePendingReply(@, reply, now)]
        /\ UNCHANGED <<now, rate_limits, processed_posts, daily_counts, hs, scans, nScans>>

SweepDelete(postId) ==
    /\ log.focus = <<"pending_replies", postId>>
    /\ pending_replies' = deletePendingReply(pending_replies, postId)
    /\ log' = [log EXCEPT !.pending_replies = deletePendingReply(@, postId)]
    /\ UNCHANGED <<now, rate_limits, processed_posts, daily_counts, hs, scans, nScans>>

SweepIncrement(platform) ==
    /\ log.focus = <<"daily_counts", platform>>
    /\ getDailyPostCount(daily_counts, platform, now) < MaxCounted
    /\ daily_counts' = incrementDailyPostCount(daily_counts, platform, now)
    /\ log' = [log EXCEPT !.daily_counts = incrementDailyPostCount(@, platform, now)]
    /\ UNCHANGED <<now, rate_limits, processed_posts, pending_replies, hs, scans, nScans>>

SweepAdvance ==
    /\ \E n \in SweepInstants : n > now /\ now' = n
    /\ UNCHANGED <<store, hs, scans, nScans, log>>

NextSweep ==
    \/ \E platform \in ScannedPlatforms : SweepRecord(platform)
    \/ \E postId \in PostIds : SweepMark(postId)
    \/ \E postId \in PostIds, text \in ReplyTexts : SweepStore(postId, text)
    \/ \E postId \in PostIds : SweepDelete(postId)
    \/ \E platform \in ScannedPlatforms : SweepIncrement(platform)
    \/ SweepAdvance
    \/ cleanupExpired

SpecSweep == InitSweep /\ [][NextSweep]_vars

\* the callback data of the inline buttons. A string is the sequence of its
\* pieces of text, the colon being a piece of its own; a TelegramCallbackData
\* holds three strings
RECURSIVE Split(_)
Split(s) ==
    IF \A i \in 1..Len(s) : s[i] # ":"
    THEN << s >>
    ELSE LET i == CHOOSE j \in 1..Len(s) :
                      s[j] = ":" /\ \A k \in 1..(j - 1) : s[k] # ":"
         IN  << SubSeq(s, 1, i - 1) >> \o Split(SubSeq(s, i + 1, Len(s)))

RECURSIVE Join(_)
Join(parts) ==
    IF Len(parts) = 0 THEN <<>>
    ELSE IF Len(parts) = 1 THEN parts[1]
    ELSE parts[1] \o <<":">> \o Join(Tail(parts))

ActionWords == { <<action>> : action \in Actions }

encodeCallbackData(data) ==
    data.action \o <<":">> \o data.postId \o <<":">> \o data.platform

\* a decoder that takes the second part for the whole postId
decodeCallbackDataThreeParts(data) ==
    LET parts == Split(data)
    IN  IF Len(parts) < 3 THEN <<>>
        ELSE IF parts[1] \notin ActionWords THEN <<>>
        ELSE << [action |-> parts[1], postId |-> parts[2],
                 platform |-> parts[Len(parts)]] >>

decodeCallbackData(data) ==
    LET parts == Split(data)
    IN  IF Len(parts) < 3 THEN <<>>
        ELSE LET action == parts[1]
                 rest == Tail(parts)
                 platform == rest[Len(rest)]
                 postId == Join(SubSeq(rest, 1, Len(rest) - 1))
             IN  IF action \notin ActionWords THEN <<>>
                 ELSE << [action |-> action, postId |-> postId,
                          platform |-> platform] >>

\* the text of a post id of the tables, and the table key of a text
TextOf(id) == << id[1], ":", id[2] >>

KeyOf(postId) ==
    IF \E id \in PostIds : TextOf(id) = postId
    THEN CHOOSE id \in PostIds : TextOf(id) = postId
    ELSE postId

MaxParts == 5

Words == Actions \cup {"unknown_action", "reddit", "r1"}

\* the strings without a colon, the empty one included
Parts == {<<>>} \cup { <<w>> : w \in Words }

PartsUpTo(n) == UNION { [1..k -> Parts] : k \in 1..n }

\* one candidate is stored and presented, as after a scan tick
InitCallback ==
    /\ now = 0
    /\ rate_limits = EmptyTable
    /\ processed_posts = markProcessed(EmptyTable, <<"reddit", "r1">>, 0)
    /\ pending_replies =
          storePendingReply(EmptyTable,
                            [postId |-> <<"reddit", "r1">>, platform |-> "reddit",
                             replyText |-> 1, createdAt |-> 0], 0)
    /\ daily_counts = EmptyTable
    /\ hs = [h \in Handlers |-> IdleHandler]
    /\ scans = [s \in Scanners |-> IdleScan]
    /\ nScans = 0
    /\ log = <<>>

\* POST /webhook/telegram with the given callback data, up to the await of
\* answerCallbackQuery; what decodeCallbackData makes of the data is recorded.
\* Every behaviour follows one invocation
ReceiveData(h, data, sent, parts) ==
    LET decoded == decodeCallbackData(data)
    IN  /\ Quiescent
        /\ Counted(daily_counts) < MaxCounted
        /\ hs' = [hs EXCEPT ![h] =
                    IF decoded = <<>>
                    THEN [IdleHandler EXCEPT !.pc = "answer", !.kind = "invalid"]
                    ELSE [IdleHandler EXCEPT !.pc = "answer", !.kind = "decision",
                                             !.action = decoded[1].action[1],
                                             !.postId = KeyOf(decoded[1].postId)]]
        /\ log' = [data |-> data, sent |-> sent, parts |-> parts, decoded |-> decoded]
        /\ UNCHANGED <<now, store, scans, nScans>>

\* a button of an approval message is pressed
ReceivePressed(h) ==
    /\ log = <<>>
    /\ \E action \in ActionWords, id \in PartsUpTo(MaxParts - 2), platform \in Parts :
          LET sent == [action |-> action, postId |-> Join(id), platform |-> platform]
          IN  ReceiveData(h, encodeCallbackData(sent), << sent >>, <<>>)

\* any other data arrives
ReceiveForged(h) ==
    /\ log = <<>>
    /\ \E parts \in PartsUpTo(MaxParts) : ReceiveData(h, Join(parts), <<>>, parts)

NextCallback ==
    \/ \E h \in Handlers : ReceivePressed(h)
    \/ \E h \in Handlers : ReceiveForged(h)
    \/ \E h \in Handlers : AnswerThrows(h)
    \/ \E h \in Handlers : AnswerNoDecision(h)
    \/ \E h \in Handlers : AnswerDecision(h)
    \/ \E h \in Handlers : PostReturn(h)
    \/ \E h \in Handlers : CrossPostReturn(h)
    \/ \E h \in Handlers : StatusResolves(h)
    \/ \E h \in Handlers : StatusThrows(h)

SpecCallback == InitCallback /\ [][NextCallback]_vars

\* scan ticks that follow one another over more than the life of a marker,
\* with the operator's decisions in between
MaxRescans == 2

\* the instants at which the ticks and the decisions happen: on both sides
\* of the end of a candidate and of the end of a marker
RescanInstants ==
    {0, ClockStep, PENDING_TTL_MS, PROCESSED_TTL_DAYS * DAY_MS,
     PROCESSED_TTL_DAYS * DAY_MS + ClockStep}

RescanStart(s) ==
    /\ scans[s].pc = "idle"
    /\ nScans < MaxRescans
    /\ nScans' = nScans + 1
    /\ scans' = [scans EXCEPT ![s] =
          ContinueScan([IdleScan EXCEPT !.tick = nScans + 1], 1, rate_limits, daily_counts)]
    /\ UNCHANGED <<now, store, hs, log>>

AdvanceRescan ==
    /\ Quiescent
    /\ \E n \in RescanInstants : n > now /\ now' = n
    /\ UNCHANGED <<store, hs, scans, nScans, log>>

NextRescan ==
    \/ \E h \in {1} : Receive(h)
    \/ \E h \in {1} : AnswerThrows(h)
    \/ \E h \in {1} : AnswerNoDecision(h)
    \/ \E h \in {1} : AnswerDecision(h)
    \/ \E h \in {1} : PostReturn(h)
    \/ \E h \in {1} : CrossPostReturn(h)
    \/ \E h \in {1} : StatusResolves(h)
    \/ \E h \in {1} : StatusThrows(h)
    \/ \E s \in Scanners : RescanStart(s)
    \/ \E s \in Scanners : FetchThrows(s)
    \/ \E s \in Scanners : FetchReturns(s)
    \/ \E s \in Scanners : GenerateReturn(s)
    \/ \E s \in Scanners : SendReturn(s)
    \/ \E s \in Scanners : NotifyReturn(s)
    \/ AdvanceRescan
    \/ cleanupExpired

SpecRescan == Init /\ [][NextRescan]_vars

\* the end of a candidate under a clock that keeps advancing: candidates are
\* stored during the first MaxStoreClockSteps clock steps, a decision or the
\* sweep may remove them, and the clock goes on for as long as one is live
MaxStoreClockSteps == 2

StoreExpiring(postId, text) ==
    /\ now < MaxStoreClockSteps * ClockStep
    /\ StorePending(postId, text)

\* a decision finalized the candidate: handleApprove, handleDecline and
\* handleMarkDone end with deletePendingReply
DecideExpiring(postId) ==
    /\ Live(postId)
    /\ pending_replies' = deletePendingReply(pending_replies, postId)
    /\ UNCHANGED <<now, rate_limits, processed_posts, daily_counts, hs, scans, nScans, log>>

AdvanceExpiring ==
    /\ \/ now < MaxStoreClockSteps * ClockStep
       \/ \E postId \in PostIds : Live(postId)
    /\ now' = now + ClockStep
    /\ UNCHANGED <<store, hs, scans, nScans, log>>

NextExpiring ==
    \/ \E postId \in PostIds, text \in ReplyTexts : StoreExpiring(postId, text)
    \/ \E postId \in PostIds : DecideExpiring(postId)
    \/ AdvanceExpiring
    \/ cleanupExpired

\* time advances; nothing else is bound to happen
SpecExpiring == Init /\ [][NextExpiring]_vars /\ WF_vars(AdvanceExpiring)

----------------------------------------------------------------------------
(* Properties *)

ApproveActions == {"approve", "approve_crosspost"}

\* handler h takes the step
Steps(h) == hs'[h] # hs[h]

\* handler h returns in the step
Returns(h) == hs[h].pc # "idle" /\ hs'[h].pc = "idle"

\* what getPendingReply answers for postId after the step
RetrievableAfter(postId) == getPendingReply(pending_replies', postId, now') # <<>>

\* C1: the posting collaborator is called only in a step of a webhook
\* handler that handles 'approve' or 'approve_crosspost' and has just read a
\* stored, unexpired pending reply of its postId; no step of a scan tick and
\* no handler of 'decline' or 'mark_done' calls it.
C1_HumanApprovalGate ==
    [][\A h \in Handlers :
          /\ (hs'[h].pc = "post" \/ hs'[h].invoked) =>
                /\ hs'[h].action \in ApproveActions
                /\ hs'[h].liveAtRead
                /\ hs'[h].pending # <<>>
          /\ (~hs[h].invoked /\ hs'[h].invoked) =>
                /\ hs[h].pc = "answer"
                /\ hs[h].action \in ApproveActions
                /\ Live(hs[h].postId)
                /\ UNCHANGED scans]_vars

C1_Witness ==
    \E h \in Handlers :
        /\ hs[h].pc = "post"
        /\ hs[h].invoked
        /\ hs[h].action \in ApproveActions
        /\ hs[h].liveAtRead

\* C2: a decision whose postId has no stored, unexpired pending reply when
\* the handler reads it is a no-op: the read step hands 'failed' (expired or
\* already processed) to updateMessageStatus, and no step of that handler
\* calls the posting collaborator or changes a row of the store (daily
\* counts included); its last step returns.
C2_DecisionIdempotency ==
    [][\A h \in Handlers :
          /\ ( /\ hs[h].pc = "answer"
               /\ hs[h].kind = "decision"
               /\ ~Live(hs[h].postId)
               /\ Steps(h) ) =>
                /\ UNCHANGED store
                /\ \/ hs'[h].pc = "idle"
                   \/ /\ hs'[h].pc = "status"
                      /\ hs'[h].status = "failed"
                      /\ ~hs'[h].invoked
                      /\ hs'[h].incs = 0
          /\ ( /\ hs[h].pc # "answer"
               /\ hs[h].kind = "decision"
               /\ ~hs[h].liveAtRead
               /\ Steps(h) ) =>
                /\ UNCHANGED store
                /\ hs[h].pc = "status"
                /\ hs'[h].pc = "idle"]_vars

\* a handler reports 'not found' for a post whose candidate was stored less
\* than 24 hours ago and has been finalized (its row is deleted)
C2_Witness ==
    \E h \in Handlers :
        /\ hs[h].pc = "status"
        /\ hs[h].status = "failed"
        /\ ~hs[h].liveAtRead
        /\ hs[h].postId \in DOMAIN processed_posts
        /\ now < processed_posts[hs[h].postId].processed_at + PENDING_TTL_MS
        /\ hs[h].postId \notin DOMAIN pending_replies
        /\ \A s \in DOMAIN scans : scans[s].pc = "idle"

\* C3 (as claimed): an 'approve' or 'approve_crosspost' read for a live
\* candidate whose platform has canPostToday = false is refused: the posting
\* collaborator is not called and the store is left as it is.
C3_QuotaBlockedApprove ==
    [][\A h \in Handlers :
          ( /\ hs[h].pc = "answer"
            /\ hs[h].kind = "decision"
            /\ hs[h].action \in ApproveActions
            /\ Live(hs[h].postId)
            /\ ~canPostToday(daily_counts, pending_replies[hs[h].postId].platform,
                             MAX_PER_DAY, now)
            /\ Steps(h) ) =>
                /\ hs'[h].pc # "post"
                /\ ~hs'[h].invoked
                /\ UNCHANGED store]_vars

\* C4 (as claimed): the count of confirmed posts of each platform for the
\* current UTC day is at most 3.
C4_QuotaNeverExceeded ==
    \A k \in 1..Len(platforms) :
        getDailyPostCount(daily_counts, platforms[k], now) <= MAX_PER_DAY

\* C5 (as claimed): of two handlers in flight for the same postId at most one
\* has called the posting collaborator and at most one has incremented the
\* daily count.
C5_AtMostOncePosting ==
    \A g, h \in Handlers :
        ( /\ g # h
          /\ hs[g].kind = "decision"
          /\ hs[h].kind = "decision"
          /\ hs[g].postId = hs[h].postId ) =>
            /\ ~(hs[g].invoked /\ hs[h].invoked)
            /\ ~(hs[g].incs > 0 /\ hs[h].incs > 0)

\* C6: once more than 24 hours have passed since a candidate was stored,
\* getPendingReply and listPendingReplies answer as if it were not stored,
\* swept or not; a handler that reads it then reports 'not found' and
\* leaves the store as it is; and no step other than a step of a scan tick
\* (a fresh store) makes a candidate that is not live live.
C6_ExpiryWithoutDecision ==
    [][/\ \A p \in DOMAIN pending_replies' :
             now' > pending_replies'[p].created_at + PENDING_TTL_MS =>
                /\ getPendingReply(pending_replies', p, now') = <<>>
                /\ p \notin listPendingReplies(pending_replies', now')
       /\ \A h \in Handlers :
             ( /\ hs[h].pc = "answer"
               /\ hs[h].kind = "decision"
               /\ hs[h].postId \in DOMAIN pending_replies
               /\ now > pending_replies[hs[h].postId].created_at + PENDING_TTL_MS
               /\ Steps(h) ) =>
                  /\ UNCHANGED store
                  /\ hs'[h].pc \in {"idle", "status"}
                  /\ ~hs'[h].invoked
                  /\ hs'[h].incs = 0
       /\ \A p \in PostIds :
             (~Live(p) /\ UNCHANGED scans) =>
                getPendingReply(pending_replies', p, now') = <<>>]_vars

\* a handler has read a row that is stored, unswept and older than 24 hours
C6_Witness ==
    \E h \in Handlers :
        /\ hs[h].pc = "status"
        /\ hs[h].kind = "decision"
        /\ ~hs[h].liveAtRead
        /\ hs[h].postId \in DOMAIN pending_replies
        /\ now > pending_replies[hs[h].postId].created_at + PENDING_TTL_MS

\* C7 (as claimed): a handler whose posting collaborator returned success
\* returns with the daily count incremented by exactly 1, the candidate no
\* longer retrievable and the 'posted' status delivered.
C7_SuccessfulApproval ==
    [][\A h \in Handlers :
          (hs[h].result = "success" /\ Returns(h)) =>
             /\ hs[h].incs = 1
             /\ hs[h].status = "posted"
             /\ StatusResolves(h)
             /\ ~RetrievableAfter(hs[h].postId)]_vars

\* C8 (as claimed): when the posting collaborator fails (success = false,
\* manual posting required, or a throw) the handler leaves the pending row
\* and the daily counts as they are and hands the failure to
\* updateMessageStatus.
C8_FailedPosting ==
    [][\A h \in Handlers :
          (hs[h].pc = "post" /\ Steps(h) /\ UNCHANGED daily_counts) =>
             /\ UNCHANGED pending_replies
             /\ hs'[h].pc = "status"
             /\ hs'[h].status \in {"failed", "manual"}]_vars

\* C9 (as claimed): a 'decline' read for a live candidate returns with the
\* candidate no longer retrievable, the daily counts unchanged and the
\* posting collaborator not called.
C9_DeclineAlwaysSucceeds ==
    [][\A h \in Handlers :
          (hs[h].action = "decline" /\ hs[h].liveAtRead /\ Returns(h)) =>
             /\ ~RetrievableAfter(hs[h].postId)
             /\ UNCHANGED daily_counts
             /\ hs[h].incs = 0
             /\ ~hs[h].invoked]_vars

\* C10 (as claimed): a 'mark_done' read for a live candidate returns with
\* the candidate no longer retrievable, the daily count of its platform
\* incremented by exactly 1 and the posting collaborator not called.
C10_MarkDone ==
    [][\A h \in Handlers :
          (hs[h].action = "mark_done" /\ hs[h].liveAtRead /\ Returns(h)) =>
             /\ ~RetrievableAfter(hs[h].postId)
             /\ hs[h].incs = 1
             /\ hs[h].pending[1].platform = hs[h].postId[1]
             /\ ~hs[h].invoked]_vars

C12_CountOnlyOnConfirmedPost ==
    [][\A k \in DOMAIN daily_counts' :
          (k \notin DOMAIN daily_counts \/ daily_counts'[k] # daily_counts[k]) =>
             /\ k[2] = Today(now)
             /\ daily_counts'[k].count = getDailyPostCount(daily_counts, k[1], now) + 1
             /\ \E h \in Handlers :
                   \/ /\ hs[h].pc = "post"
                      /\ hs'[h].result = "success"
                      /\ hs[h].action \in ApproveActions
                      /\ hs[h].pending[1].platform = k[1]
                   \/ /\ hs[h].pc = "answer"
                      /\ hs[h].action = "mark_done"
                      /\ Live(hs[h].postId)
                      /\ hs[h].postId[1] = k[1]]_vars

\* one handler has confirmed a post and counted it, another has declined a
\* live candidate and counted nothing
C12_Witness ==
    \E g, h \in Handlers :
        /\ hs[g].status = "posted"
        /\ hs[g].incs = 1
        /\ hs[h].status = "declined"
        /\ hs[h].liveAtRead
        /\ hs[h].incs = 0
        /\ Counted(daily_counts) = 1

\* C13: for every platform and every maximum, canPostToday answers true
\* exactly while fewer than the maximum calls of incrementDailyPostCount
\* were made for that platform on the current UTC day, whatever was
\* incremented for the other platforms or on other days, swept or not.
C13_QuotaEnforcement ==
    \A platform \in SocialPlatforms, maxPerDay \in 1..MaxQuotaCalls :
        canPostToday(daily_counts, platform, maxPerDay, now)
            <=> Logged(<<platform, Today(now)>>) < maxPerDay

\* reddit was incremented exactly 3 times today and is closed, twitter was
\* not incremented today and is open
C13_Witness ==
    /\ Logged(<<"reddit", Today(now)>>) = MAX_PER_DAY
    /\ ~canPostToday(daily_counts, "reddit", MAX_PER_DAY, now)
    /\ Logged(<<"twitter", Today(now)>>) = 0
    /\ canPostToday(daily_counts, "twitter", MAX_PER_DAY, now)
    /\ Today(now) > 0

\* C14: canMakeRequest(platform) is true exactly when the platform has no
\* rate window, or its window has expired, or fewer calls of recordRequest
\* than the platform's limit were made in the window; nothing recorded for
\* another platform enters the answer, and the sweep does not change it.
C14_RequestBudget ==
    \A platform \in ScannedPlatforms :
        canMakeRequest(rate_limits, platform, now)
            <=> \/ NoWindow(platform)
                \/ WindowExpired(platform)
                \/ log[platform].n < Limit(platform)

\* 15 calls for twitter in its open window: twitter is refused, and reddit,
\* whose exhausted window has expired, is allowed again
C14_Witness ==
    /\ ~NoWindow("twitter")
    /\ ~WindowExpired("twitter")
    /\ log["twitter"].n = 15
    /\ ~canMakeRequest(rate_limits, "twitter", now)
    /\ ~NoWindow("reddit")
    /\ log["reddit"].n = 60
    /\ WindowExpired("reddit")
    /\ canMakeRequest(rate_limits, "reddit", now)

\* C15: a call of recordRequest(platform) for a platform that has no row or
\* whose window has expired writes the row of a fresh window starting now
\* with request_count exactly 1; otherwise it adds exactly 1 to the count
\* and leaves the start and the expiry of the window as they are; the rows
\* of the other platforms are not touched.
C15_RecordRequestUpsert ==
    [][\A platform \in ScannedPlatforms :
          (log' # log /\ platform \in DOMAIN log'
              /\ (platform \notin DOMAIN log \/ log'[platform] # log[platform])) =>
             /\ platform \in DOMAIN rate_limits'
             /\ IF \/ platform \notin DOMAIN rate_limits
                   \/ now > rate_limits[platform].last_request_at + WindowMs(platform)
                THEN rate_limits'[platform] =
                        [last_request_at |-> now, request_count |-> 1,
                         expires_at |-> now + WindowMs(platform)]
                ELSE rate_limits'[platform] =
                        [rate_limits[platform] EXCEPT !.request_count = @ + 1]
             /\ \A other \in DOMAIN rate_limits' \ {platform} :
                   other \in DOMAIN rate_limits /\ rate_limits'[other] = rate_limits[other]]_vars

\* reddit's row is a fresh window opened after the start of the run, with
\* count 1; twitter's row counts several requests of a window opened earlier
C15_Witness ==
    /\ "reddit" \in DOMAIN rate_limits
    /\ rate_limits["reddit"].request_count = 1
    /\ rate_limits["reddit"].last_request_at = now
    /\ now > 0
    /\ "twitter" \in DOMAIN rate_limits
    /\ rate_limits["twitter"].request_count > 1
    /\ rate_limits["twitter"].last_request_at < now

\* C16 (as claimed): the number of requests recorded in a rate window never
\* exceeds the limit of the platform, also when scan ticks overlap.
C16_BudgetUnderOverlappingTicks ==
    \A platform \in ScannedPlatforms : Requests(platform) <= Limit(platform)

\* the posts a tick holds as candidates: collected, chosen, or replied to
Held(sc) ==
    { sc.allCandidates[k].id : k \in 1..Len(sc.allCandidates) }
        \cup { sc.topCandidates[k].id : k \in 1..Len(sc.topCandidates) }
        \cup { sc.replies[k].postId : k \in 1..Len(sc.replies) }

\* the row of processed_posts for postId is stored and has not expired
Marked(postId) ==
    postId \in DOMAIN processed_posts /\ processed_posts[postId].expires_at > now

\* C17: a post whose processed marker is stored and unexpired when a tick's
\* fetch returns it is dropped before ranking: the tick counts it as
\* scanned but not as new or ranked, writes no marker, and does not take it
\* as a candidate; and a pending reply is stored only for a post held by a
\* tick, so the post is not stored or presented again.
C17_DedupAcrossTicks ==
    [][/\ \A s \in DOMAIN scans, x \in PostIds :
             /\ (Marked(x) /\ x \notin Held(scans[s])) => x \notin Held(scans'[s])
             /\ ( /\ Marked(x)
                  /\ scans[s].pc = "fetch"
                  /\ platforms[scans[s].i] = x[1]
                  /\ scans'[s] # scans[s] ) =>
                     /\ UNCHANGED processed_posts
                     /\ UNCHANGED pending_replies
                     /\ scans'[s].pc # "idle" =>
                           /\ Len(scans'[s].results) >= scans[s].i
                           /\ scans'[s].results[scans[s].i].postsNew = 0
                           /\ scans'[s].results[scans[s].i].postsRanked = 0
       /\ \A x \in DOMAIN pending_replies' :
             (x \notin DOMAIN pending_replies \/ pending_replies'[x] # pending_replies[x]) =>
                \E s \in DOMAIN scans : x \in Held(scans[s])]_vars

\* a later tick has fetched a marked post again: scanned 1, new 0, and the
\* tick holds no candidate
C17_Witness ==
    \E s \in DOMAIN scans :
        /\ scans[s].pc = "fetch"
        /\ scans[s].i = 2
        /\ Len(scans[s].results) = 1
        /\ scans[s].results[1].postsScanned = 1
        /\ scans[s].results[1].postsNew = 0
        /\ Marked(<<"reddit", "r1">>)
        /\ Held(scans[s]) = {}

\* C18: isProcessed(id) is true exactly when markProcessed(id) was called
\* and less than the TTL of the last call (7 days by default) has passed
\* since the last call: a repeated question gets the same answer, a repeated
\* markProcessed replaces the expiry, an id never marked is not processed,
\* and the sweep changes no answer.
C18_ProcessedMarkers ==
    \A postId \in PostIds :
        isProcessed(processed_posts, postId, now)
            <=> /\ postId \in DOMAIN log
                /\ now < log[postId].at + log[postId].ttlDays * DAY_MS

\* a marker with the default TTL has run out after 7 days while the marker
\* of another post, renewed later, still answers true
C18_Witness ==
    /\ <<"reddit", "r1">> \in DOMAIN log
    /\ log[<<"reddit", "r1">>].ttlDays = PROCESSED_TTL_DAYS
    /\ now >= log[<<"reddit", "r1">>].at + PROCESSED_TTL_DAYS * DAY_MS
    /\ ~isProcessed(processed_posts, <<"reddit", "r1">>, now)
    /\ <<"twitter", "t1">> \in DOMAIN log
    /\ log[<<"twitter", "t1">>].at > 0
    /\ isProcessed(processed_posts, <<"twitter", "t1">>, now)

\* C19: the store answers with at most one pending reply per postId, the
\* one of the last call of storePendingReply: while less than 24 hours have
\* passed since that call getPendingReply returns its reply text and
\* listPendingReplies lists the postId, and otherwise neither returns
\* anything for the postId; an earlier reply stored for the same postId is
\* never returned.
C19_OneCandidatePerPost ==
    \A postId \in PostIds :
        IF postId \in DOMAIN log /\ now < log[postId].at + PENDING_TTL_MS
        THEN /\ getPendingReply(pending_replies, postId, now) =
                   << [postId |-> postId, platform |-> postId[1],
                       replyText |-> log[postId].text, createdAt |-> log[postId].at] >>
             /\ postId \in listPendingReplies(pending_replies, now)
        ELSE /\ getPendingReply(pending_replies, postId, now) = <<>>
             /\ postId \notin listPendingReplies(pending_replies, now)

\* a candidate was stored over a live candidate of the same postId with
\* another reply text, and the later text is the one returned
C19_Witness ==
    \E postId \in PostIds :
        /\ postId \in DOMAIN log
        /\ log[postId].over
        /\ log[postId].text = 2
        /\ log[postId].at > 0
        /\ getPendingReply(pending_replies, postId, now) # <<>>
        /\ getPendingReply(pending_replies, postId, now)[1].replyText = 2

\* C20: when the scanner collaborator throws for a platform (the step of a
\* tick out of a fetch that records no request), the store is left as it
\* is, the tick keeps the candidates it holds and goes on: to the fetch of
\* the next platform whose budgets allow it, else to the generation of the
\* replies if it holds candidates, else to its end; the error is counted in
\* the result of the failing platform and the results of the platforms
\* before it are unchanged; a fetch that returns counts no error.
C20_ScannerFailureIsolated ==
    [][\A s \in DOMAIN scans :
          LET sc == scans[s]
              next == SkipTo(sc.i + 1, rate_limits, daily_counts)
          IN  /\ (sc.pc = "fetch" /\ scans'[s] # sc /\ UNCHANGED rate_limits) =>
                    /\ UNCHANGED store
                    /\ Held(scans'[s]) = Held(sc)
                    /\ IF next <= Len(platforms)
                       THEN scans'[s].pc = "fetch" /\ scans'[s].i = next
                       ELSE IF Held(sc) # {}
                            THEN scans'[s].pc = "generate"
                            ELSE scans'[s].pc = "idle"
                    /\ scans'[s].pc # "idle" =>
                          /\ Len(scans'[s].results) >= sc.i
                          /\ scans'[s].results[sc.i].platform = platforms[sc.i]
                          /\ scans'[s].results[sc.i].errors = 1
                          /\ \A k \in 1..Len(sc.results) :
                                scans'[s].results[k] = sc.results[k]
                          /\ \A k \in (sc.i + 1)..Len(scans'[s].results) :
                                scans'[s].results[k].errors = 0
              /\ (sc.pc = "fetch" /\ scans'[s] # sc /\ ~UNCHANGED rate_limits
                     /\ scans'[s].pc # "idle") =>
                    scans'[s].results[sc.i].errors = 0]_vars

\* the reddit scanner threw, and the tick went on to twitter and has stored
\* a candidate for the twitter post
C20_Witness ==
    \E s \in DOMAIN scans :
        /\ scans[s].pc = "send"
        /\ scans[s].results[1].platform = "reddit"
        /\ scans[s].results[1].errors = 1
        /\ scans[s].results[2].platform = "twitter"
        /\ scans[s].results[2].errors = 0
        /\ <<"twitter", "t1">> \in listPendingReplies(pending_replies, now)
        /\ "reddit" \notin DOMAIN rate_limits


\* the positions of an invocation of handleTelegramWebhook: not called, or
\* awaiting answerCallbackQuery, the posting collaborator, handleCrossPost
\* or updateMessageStatus
HandlerPcs == {"idle", "answer", "post", "crosspost", "status"}

\* C21: handleTelegramWebhook never throws: whatever the update holds (no
\* callback query, missing data, undecodable data, an unknown candidate) and
\* whichever awaited call resolves or rejects, every step of an invocation
\* ends at the await of the next collaborator or with the handler returned
\* ({ok: true}, nothing of the invocation left); no exception leaves it.
C21_WebhookAlwaysOk ==
    [][\A h \in Handlers :
          /\ hs'[h].pc \in HandlerPcs
          /\ (Steps(h) /\ hs[h].pc = "idle") => hs'[h].pc = "answer"
          /\ (Steps(h) /\ hs[h].pc # "idle") =>
                \/ hs'[h] = IdleHandler
                \/ hs'[h].pc \in {"post", "crosspost", "status"}]_vars

\* C21 witness: a decision for a candidate that is not stored was read, and
\* the handler goes on to report it instead of throwing.
C21_Witness ==
    \E h \in Handlers :
       /\ hs[h].pc = "status"
       /\ hs[h].kind = "decision"
       /\ ~hs[h].liveAtRead
       /\ hs[h].pending = <<>>
       /\ hs[h].status = "failed"

\* C22 (as claimed): a decision that was acknowledged and read for a live
\* candidate never returns silently: when its handler returns, either the
\* status update was delivered in that step or the invocation changed the
\* store (it moved the daily count).
C22_NoSilentFailure ==
    [][\A h \in Handlers :
          (hs[h].kind = "decision" /\ hs[h].liveAtRead /\ Returns(h)) =>
             \/ StatusResolves(h)
             \/ hs[h].incs > 0]_vars


\* C23: a failed delivery keeps the candidate and the tick: in every step in
\* which sendApprovalRequest returns (success or failure) or throws, the
\* candidate it was called for is still retrievable with getPendingReply
\* afterwards, and the tick goes on: to the next candidate, which is stored
\* and presented in turn, or after the last one to the summary.
C23_DeliveryFailureKeepsCandidate ==
    [][\A s \in DOMAIN scans :
          (scans[s].pc = "send" /\ scans'[s] # scans[s]) =>
             LET sc == scans[s]
             IN  /\ RetrievableAfter(sc.replies[sc.ri].postId)
                 /\ scans'[s].replies = sc.replies
                 /\ IF sc.ri < Len(sc.replies)
                    THEN /\ scans'[s].pc = "send"
                         /\ scans'[s].ri = sc.ri + 1
                         /\ RetrievableAfter(sc.replies[sc.ri + 1].postId)
                    ELSE scans'[s].pc = "notify"]_vars

\* C23 witness: the delivery of a tick's first candidate has returned, and
\* the tick presents its second candidate with both still retrievable.
C23_Witness ==
    \E s \in DOMAIN scans :
       /\ scans[s].pc = "send"
       /\ scans[s].ri = 2
       /\ \A k \in 1..2 :
             getPendingReply(pending_replies, scans[s].replies[k].postId, now) # <<>>


\* the calls of createGeneratedReply that resolved, among those made so far
Generated == { k \in 1..Len(log.outcomes) : log.outcomes[k] = "ok" }

\* C24: generateReplies returns exactly one reply per post whose generation
\* succeeded, in input order, and none for a post whose generation threw;
\* a throw never ends the loop (the call returns only after every post was
\* tried); for the empty batch it returns the empty list without calling
\* the generator.
C24_GenerateReplies ==
    DOMAIN log # {} =>
       /\ Len(log.replies) = Cardinality(Generated)
       /\ \A k \in Generated :
             LET j == Cardinality({ m \in Generated : m <= k })
             IN  /\ log.replies[j].postId = log.posts[k].id
                 /\ log.replies[j].platform = log.posts[k].platform
       /\ log.returned <=> Len(log.outcomes) = Len(log.posts)
       /\ Len(log.posts) = 0 => (log.returned /\ log.outcomes = <<>> /\ log.replies = <<>>)

\* C24 witness: a batch of three returned two replies, the generation for
\* the post in the middle having thrown.
C24_Witness ==
    /\ DOMAIN log # {}
    /\ log.returned
    /\ log.outcomes = <<"ok", "throw", "ok">>
    /\ Len(log.replies) = 2


\* the place of the post with this id in the batch that was ranked
PlaceOf(id) == CHOOSE k \in 1..Len(log.posts) : log.posts[k].id = id

\* the batch that was ranked, each post with the score rankPosts gave it
ScoredBatch ==
    [k \in 1..Len(log.posts) |->
        [log.posts[k] EXCEPT !.relevanceScore =
            calculateRelevanceScore(log.posts[k], MaxEngagement(log.posts))]]

\* C25: rankPosts(posts, limit) returns min(limit, |posts|) posts, each an
\* input post with its score, in descending order of score with ties in
\* input order, and no post left out scores higher than a returned one (a
\* post left out that ties with a returned one comes later in the input);
\* the empty batch gives the empty list.
C25_RankPosts ==
    DOMAIN log # {} =>
       LET out == log.ranked
           ids == { out[j].id : j \in 1..Len(out) }
       IN  /\ Len(out) = Min(log.limit, Len(log.posts))
           /\ \A j \in 1..Len(out) :
                 /\ \E k \in 1..Len(log.posts) : out[j] = ScoredBatch[k]
                 /\ \A m \in 1..Len(out) : m # j => out[m].id # out[j].id
           /\ \A j, m \in 1..Len(out) :
                 j < m =>
                    \/ out[j].relevanceScore > out[m].relevanceScore
                    \/ /\ out[j].relevanceScore = out[m].relevanceScore
                       /\ PlaceOf(out[j].id) < PlaceOf(out[m].id)
           /\ \A k \in 1..Len(log.posts), j \in 1..Len(out) :
                 ScoredBatch[k].id \notin ids =>
                    \/ ScoredBatch[k].relevanceScore < out[j].relevanceScore
                    \/ /\ ScoredBatch[k].relevanceScore = out[j].relevanceScore
                       /\ PlaceOf(out[j].id) < k
           /\ Len(log.posts) = 0 => out = <<>>

\* C25 witness: a batch of three with two posts of equal score was ranked
\* with limit 2; the tie is returned in input order and the post of lower
\* score is left out.
C25_Witness ==
    /\ DOMAIN log # {}
    /\ Len(log.posts) = 3
    /\ log.limit = 2
    /\ Len(log.ranked) = 2
    /\ log.ranked[1].relevanceScore = log.ranked[2].relevanceScore
    /\ log.posts[1].id = log.ranked[2].id \/ log.posts[2].id = log.ranked[1].id
    /\ \E k \in 1..3 : ScoredBatch[k].relevanceScore < log.ranked[2].relevanceScore


\* the ids of the posts of a list
IdsOf(posts) == { posts[k].id : k \in 1..Len(posts) }

\* the place of the post with this id in the list that was filtered
RankOf(id) == CHOOSE k \in 1..Len(log.ranked) : log.ranked[k].id = id

\* C27: filterForReply(posts, t) keeps exactly the posts that score at
\* least t and match a question pattern, in input order, and is monotone in
\* t: for t1 <= t2 every post kept at t2 is kept at t1 (40 is among the
\* thresholds).
C27_FilterForReply ==
    (DOMAIN log # {} /\ (IF DOMAIN log = {} THEN FALSE ELSE log.filtered)) =>
       LET in == log.ranked
           t == log.minRelevance
           kept == log.kept
       IN  /\ \A k \in 1..Len(in) :
                 (in[k].relevanceScore >= t /\ in[k].questions > 0)
                    <=> \E j \in 1..Len(kept) : kept[j] = in[k]
           /\ \A j \in 1..Len(kept) : kept[j].id \in IdsOf(in)
           /\ \A j, m \in 1..Len(kept) :
                 j < m => RankOf(kept[j].id) < RankOf(kept[m].id)
           /\ \A t1, t2 \in Thresholds :
                 t1 <= t2 =>
                    IdsOf(filterForReply(in, t2)) \subseteq IdsOf(filterForReply(in, t1))

\* C27 witness: at the default threshold a list of three was filtered to
\* one post: a question scoring below 40 and a post scoring above it that
\* is no question were dropped.
C27_Witness ==
    /\ DOMAIN log # {}
    /\ log.filtered
    /\ log.minRelevance = MIN_RELEVANCE
    /\ Len(log.ranked) = 3
    /\ Len(log.kept) = 1
    /\ \E k \in 1..3 : log.ranked[k].questions > 0
                       /\ log.ranked[k].relevanceScore < MIN_RELEVANCE
    /\ \E k \in 1..3 : log.ranked[k].questions = 0
                       /\ log.ranked[k].relevanceScore > MIN_RELEVANCE


\* a sub-score or a relevance score within 0 and 100 points
InRange(score, unit) == 0 <= score /\ score <= 100 * unit

\* C26: for every post of every batch the keyword, engagement, recency and
\* question sub-scores and the relevance score rankPosts assigns lie within
\* 0 and 100; the engagement sub-score is 50 when the largest engagement of
\* the batch is 0; the recency sub-score is never below 10.
C26_ScoreBounds ==
    DOMAIN log # {} =>
       LET maxEngagement == MaxEngagement(log.posts)
       IN  /\ \A k \in 1..Len(log.posts) :
                 LET post == log.posts[k]
                 IN  /\ InRange(calculateKeywordScore(post), SCALE)
                     /\ InRange(calculateEngagementScore(post, maxEngagement), SCALE)
                     /\ InRange(calculateRecencyScore(post), SCALE)
                     /\ InRange(calculateQuestionScore(post), SCALE)
                     /\ InRange(calculateRelevanceScore(post, maxEngagement), 1)
                     /\ maxEngagement = 0 =>
                           calculateEngagementScore(post, maxEngagement) = 50 * SCALE
                     /\ calculateRecencyScore(post) >= 10 * SCALE
           /\ Len(log.ranked) = Len(log.posts)
           /\ \A j \in 1..Len(log.ranked) : InRange(log.ranked[j].relevanceScore, 1)

\* C26 witness: a batch of two in which no post has engagement was scored,
\* with a 36-hour-old forum post whose decay alone is under the floor.
C26_Witness ==
    /\ DOMAIN log # {}
    /\ Len(log.posts) = 2
    /\ MaxEngagement(log.posts) = 0
    /\ \E k \in 1..Len(log.posts) :
          /\ log.posts[k].platform = "reddit"
          /\ log.posts[k].ageMinutes = 2160
          /\ calculateRecencyScore(log.posts[k]) = 10 * SCALE
          /\ calculateEngagementScore(log.posts[k], 0) = 50 * SCALE


\* the platforms a step of a tick passes over without calling their
\* scanner: those after the platform whose scanner it awaited (or from the
\* first, at the start of the tick) and before the platform whose scanner
\* it calls next (or to the last)
PassedOver(s) ==
    LET from == IF scans[s].pc = "fetch" THEN scans[s].i + 1 ELSE 1
        to == IF scans'[s].pc = "fetch" THEN scans'[s].i - 1 ELSE Len(platforms)
    IN  IF scans[s].pc \in {"idle", "fetch"} /\ scans'[s] # scans[s]
        THEN from..to ELSE {}

\* C28: a platform whose request budget or daily-post quota is used up when
\* its scan starts is skipped entirely: a tick calls a scanner only for a
\* platform for which canMakeRequest and canPostToday(platform, 3) both
\* answer true, and for a platform it passes over it records no request,
\* marks no post, holds no candidate, and its result carries no error and
\* no counts.
C28_BudgetExhaustedSkip ==
    [][\A s \in DOMAIN scans :
          /\ (scans'[s].pc = "fetch" /\ scans'[s] # scans[s]) =>
                LET platform == platforms[scans'[s].i]
                IN  /\ canMakeRequest(rate_limits', platform, now')
                    /\ canPostToday(daily_counts', platform, MAX_PER_DAY, now')
          /\ \A k \in PassedOver(s) :
                LET platform == platforms[k]
                IN  /\ \/ ~canMakeRequest(rate_limits', platform, now')
                       \/ ~canPostToday(daily_counts', platform, MAX_PER_DAY, now')
                    /\ Requests(platform)' = Requests(platform)
                    /\ \A postId \in PostIds :
                          postId[1] = platform =>
                             /\ Marked(postId)' = Marked(postId)
                             /\ postId \notin Held(scans'[s])
                    /\ scans'[s].pc # "idle" =>
                          scans'[s].results[k] = NewResult(platform)]_vars

\* C28 witness: reddit has requests left but its three posts of the day are
\* made; the tick passed it over with an empty result and awaits the
\* scanner of twitter.
C28_Witness ==
    \E s \in DOMAIN scans :
       /\ scans[s].pc = "fetch"
       /\ scans[s].i = 2
       /\ scans[s].results = << NewResult("reddit") >>
       /\ canMakeRequest(rate_limits, "reddit", now)
       /\ ~canPostToday(daily_counts, "reddit", MAX_PER_DAY, now)
       /\ "reddit" \notin DOMAIN rate_limits


\* C29 (as claimed): every scanner call consumes exactly one request slot:
\* in the step in which the call a tick awaited completes, by returning
\* posts or by throwing, the request count of the platform's window goes up
\* by one.
C29_OneSlotPerScannerCall ==
    [][\A s \in DOMAIN scans :
          (scans[s].pc = "fetch" /\ scans'[s] # scans[s]) =>
             LET platform == platforms[scans[s].i]
             IN  Requests(platform)' = Requests(platform) + 1]_vars


\* the row of processed_posts for postId is stored and has not expired
\* after the step
MarkedAfter(postId) ==
    postId \in DOMAIN processed_posts' /\ processed_posts'[postId].expires_at > now'

\* the posts a scanner call returned that had no unexpired marker before
\* the step
Fresh == SelectSeq(log'.posts, LAMBDA post : ~Marked(post.id))

\* C30: every ranked post is marked processed: in the step in which a
\* platform's scanner returns posts (the step that records the request),
\* every post the ranking returns for the posts not yet marked (at most 20
\* of them) has an unexpired marker
\* afterwards, whether or not it qualified for a reply or became one of the
\* platform's candidates; the result counts them as ranked; and a post
\* marked before the step is not ranked again.
C30_EveryRankedPostMarked ==
    [][\A s \in DOMAIN scans :
          (scans[s].pc = "fetch" /\ scans'[s] # scans[s] /\ rate_limits' # rate_limits) =>
             LET ranked == rankPosts(Fresh, RANK_LIMIT)
             IN  /\ \A j \in 1..Len(ranked) : MarkedAfter(ranked[j].id)
                 /\ Len(Fresh) <= RANK_LIMIT =>
                       \A k \in 1..Len(Fresh) : MarkedAfter(Fresh[k].id)
                 /\ Cardinality({ id \in IdsOf(log'.posts) : ~Marked(id) /\ MarkedAfter(id) })
                       = Min(RANK_LIMIT, Len(Fresh))
                 /\ scans'[s].pc # "idle" =>
                       LET result == scans'[s].results[Len(scans[s].results) + 1]
                       IN  /\ result.postsNew = Len(Fresh)
                           /\ result.postsRanked = Min(RANK_LIMIT, Len(Fresh))]_vars

\* C30 witness: the scanner of reddit returned the six posts; three became
\* candidates, and the fourth that qualified, the post that is no question
\* and the post that scored low are marked like them.
C30_Witness ==
    \E s \in DOMAIN scans :
       /\ scans[s].pc = "fetch"
       /\ scans[s].i = 2
       /\ Len(log.posts) = Len(FeedPosts)
       /\ scans[s].results[1].postsRanked = Len(FeedPosts)
       /\ Len(scans[s].allCandidates) = CANDIDATES_PER_PLATFORM
       /\ \A k \in 1..Len(FeedPosts) : Marked(FeedPosts[k].id)
       /\ \E k \in 1..Len(FeedPosts) :
             FeedPosts[k].questions = 0 /\ FeedPosts[k].id \notin Held(scans[s])


\* C31 (as claimed): a failed reply generation does not consume the post:
\* after the step in which createGeneratedReply throws for a candidate of a
\* tick, that post carries no unexpired processed marker, so a later tick
\* that fetches it again can still consider it.
C31_FailureDoesNotConsumePost ==
    [][\A s \in DOMAIN scans :
          (scans[s].pc = "generate" /\ scans'[s] # scans[s]) =>
             LET post == scans[s].topCandidates[scans[s].gi]
                 failed == \/ scans'[s].pc = "idle"
                           \/ \A k \in 1..Len(scans'[s].replies) :
                                 scans'[s].replies[k].postId # post.id
             IN  failed => ~MarkedAfter(post.id)]_vars


\* the approvals a tick has counted in its results
RECURSIVE ApprovalsSent(_)
ApprovalsSent(results) ==
    IF results = <<>> THEN 0
    ELSE Head(results).approvalsSent + ApprovalsSent(Tail(results))

\* C32: the cap of a tick is global: whatever the platforms return, one tick
\* chooses at most 3 candidates over all platforms together; it calls the
\* generator for at most 3 posts, holds at most 3 replies, counts at most 3
\* approvals, and at most 3 pending rows carry the reply text of one tick.
C32_GlobalPerTickCap ==
    /\ \A s \in DOMAIN scans :
          /\ Len(scans[s].topCandidates) <= REPLIES_PER_SCAN
          /\ scans[s].gi <= REPLIES_PER_SCAN
          /\ Len(scans[s].replies) <= REPLIES_PER_SCAN
          /\ scans[s].ri <= REPLIES_PER_SCAN
          /\ ApprovalsSent(scans[s].results) <= REPLIES_PER_SCAN
    /\ \A tick \in 1..MaxFeedTicks :
          Cardinality({ postId \in DOMAIN pending_replies :
                           pending_replies[postId].reply_text = tick }) <= REPLIES_PER_SCAN

\* C32 witness: four posts passed the reply filter in one tick, three of
\* reddit and one of twitter; the tick presented three, and the reddit post
\* q3 that qualified is marked but was given no reply.
C32_Witness ==
    \E s \in DOMAIN scans :
       /\ scans[s].pc = "notify"
       /\ Len(scans[s].replies) = REPLIES_PER_SCAN
       /\ ApprovalsSent(scans[s].results) = REPLIES_PER_SCAN
       /\ \E k \in 1..REPLIES_PER_SCAN : scans[s].replies[k].platform = "twitter"
       /\ Marked(<<"reddit", "q3">>)
       /\ Marked(<<"reddit", "q1">>)
       /\ Marked(<<"reddit", "q2">>)
       /\ <<"reddit", "q3">> \notin DOMAIN pending_replies
       /\ Cardinality(DOMAIN pending_replies) = REPLIES_PER_SCAN


\* the posts that pass the reply filter in the step in which a scanner call
\* returns: those the ranking returns for the unmarked posts that score at
\* least 40 and match a question pattern
Qualified ==
    LET ranked == rankPosts(Fresh, RANK_LIMIT)
    IN  { ranked[k] : k \in { j \in 1..Len(ranked) :
                                 /\ ranked[j].relevanceScore >= MIN_RELEVANCE
                                 /\ ranked[j].questions > 0 } }

\* the elements of a list
Range(seq) == { seq[k] : k \in 1..Len(seq) }

\* the place of the candidate a reply was generated for among the chosen
ChosenAt(sc, reply) ==
    CHOOSE k \in 1..Len(sc.topCandidates) : sc.topCandidates[k].id = reply.postId

\* C33: a tick presents in descending order of relevance over all its
\* platforms together.  The candidates a platform hands on, and the
\* candidates chosen when the last platform is done, are the highest-scoring
\* posts that passed the reply filter: no post left out scores higher than
\* one taken.  The chosen are kept in descending order of score; the
\* generator is called for them in that order, one after another; the
\* replies are in that order; and they are stored and presented in that
\* order, one after another.
C33_PresentationOrder ==
    [][\A s \in DOMAIN scans :
          LET sc == scans[s]
              next == scans'[s]
          IN  /\ \A j, k \in 1..Len(next.topCandidates) :
                    j < k => next.topCandidates[j].relevanceScore
                                >= next.topCandidates[k].relevanceScore
              /\ (sc.pc = "fetch" /\ next # sc /\ next.pc # "idle") =>
                    LET returned == rate_limits' # rate_limits
                        pool == Range(sc.allCandidates)
                                   \cup (IF returned THEN Qualified ELSE {})
                        taken == Range(next.allCandidates) \cup Range(next.topCandidates)
                    IN  /\ taken \subseteq pool
                        /\ \A p \in pool \ taken, c \in taken :
                              (next.pc = "generate" \/ c.platform = p.platform) =>
                                 p.relevanceScore <= c.relevanceScore
                        /\ next.pc = "generate" =>
                              Len(next.topCandidates)
                                 = Min(REPLIES_PER_SCAN, Cardinality(pool))
              /\ (sc.pc = "generate" /\ next # sc /\ next.pc # "idle") =>
                    /\ \/ next.replies = sc.replies
                       \/ /\ Len(next.replies) = Len(sc.replies) + 1
                          /\ SubSeq(next.replies, 1, Len(sc.replies)) = sc.replies
                          /\ next.replies[Len(next.replies)].postId
                                = sc.topCandidates[sc.gi].id
                    /\ \A j, k \in 1..Len(next.replies) :
                          j < k => ChosenAt(sc, next.replies[j]) < ChosenAt(sc, next.replies[k])
                    /\ next.pc = "generate" =>
                          (next.gi = sc.gi + 1 /\ next.topCandidates = sc.topCandidates)
                    /\ next.pc = "send" =>
                          (next.ri = 1 /\ RetrievableAfter(next.replies[1].postId))
              /\ (sc.pc = "send" /\ next # sc) =>
                    /\ next.replies = sc.replies
                    /\ next.pc = "send" =>
                          /\ next.ri = sc.ri + 1
                          /\ RetrievableAfter(next.replies[next.ri].postId)
                          /\ pending_replies'[next.replies[next.ri].postId].created_at = now
                          /\ \A k \in (next.ri + 1)..Len(next.replies) :
                                 next.replies[k].postId \notin DOMAIN pending_replies']_vars

\* C33 witness: a tick whose forum posts q1, q2 and q3 and whose tweet t1
\* passed the reply filter presents q1, then q2, then the tweet, which
\* scores between q2 and q3.
C33_Witness ==
    \E s \in DOMAIN scans :
       /\ scans[s].pc = "send"
       /\ scans[s].ri = 3
       /\ scans[s].replies[1].postId = <<"reddit", "q1">>
       /\ scans[s].replies[2].postId = <<"reddit", "q2">>
       /\ scans[s].replies[3].postId = <<"twitter", "t1">>
       /\ Marked(<<"reddit", "q3">>)
       /\ <<"reddit", "q3">> \notin DOMAIN pending_replies
       /\ \A k \in 1..3 : scans[s].replies[k].postId \in DOMAIN pending_replies


\* C34 (as claimed): one terminal outcome per candidate: of two invocations
\* that read the same live candidate, it never happens that one has posted
\* it to the platform while the other reports it declined, nor that the two
\* together move the daily count by more than one.
C34_OneTerminalOutcome ==
    [][\A h, g \in Handlers :
          (/\ h # g
           /\ hs[h].postId = hs[g].postId
           /\ hs[h].liveAtRead
           /\ hs[g].liveAtRead) =>
             /\ ~(hs[h].result = "success" /\ hs[g].status = "declined"
                    /\ StatusResolves(g))
             /\ hs[h].incs + hs[g].incs <= 1]_vars

\* the rows of table t as the read paths see them at instant n
SameRows(swept, unswept, n) ==
    /\ \A k \in DOMAIN swept : k \in DOMAIN unswept /\ unswept[k] = swept[k]
    /\ \A k \in DOMAIN unswept \ DOMAIN swept : unswept[k].expires_at < n

\* C35: the cleanup sweep is advisory: at every point of an execution in
\* which cleanupExpired ran at arbitrary points, every read and check, made
\* now or at any later instant, answers as in the same execution without
\* any sweep, and the sweep has only removed rows that were already expired
C35_SweepIsAdvisory ==
    /\ SameRows(rate_limits, log.rate_limits, now)
    /\ SameRows(processed_posts, log.processed_posts, now)
    /\ SameRows(pending_replies, log.pending_replies, now)
    /\ SameRows(daily_counts, log.daily_counts, now)
    /\ \A n \in { m \in SweepInstants : m >= now } :
          /\ \A platform \in ScannedPlatforms :
                /\ canMakeRequest(rate_limits, platform, n)
                      = canMakeRequest(log.rate_limits, platform, n)
                /\ getRemainingRequests(rate_limits, platform, n)
                      = getRemainingRequests(log.rate_limits, platform, n)
                /\ getDailyPostCount(daily_counts, platform, n)
                      = getDailyPostCount(log.daily_counts, platform, n)
                /\ canPostToday(daily_counts, platform, MAX_PER_DAY, n)
                      = canPostToday(log.daily_counts, platform, MAX_PER_DAY, n)
          /\ \A postId \in PostIds :
                /\ isProcessed(processed_posts, postId, n)
                      = isProcessed(log.processed_posts, postId, n)
                /\ getPendingReply(pending_replies, postId, n)
                      = getPendingReply(log.pending_replies, postId, n)
          /\ listPendingReplies(pending_replies, n)
                = listPendingReplies(log.pending_replies, n)

\* a sweep removed the count of an earlier day and the platform posted
\* again afterwards
C35_Witness ==
    /\ DOMAIN daily_counts # {}
    /\ DOMAIN log.daily_counts \ DOMAIN daily_counts # {}

\* C36: callback data round-trips: what decodeCallbackData makes of the data
\* of a pressed button is the action, postId and platform the button was
\* built from, whatever colons the postId contains; data of fewer than three
\* colon-separated parts or with an unknown action decodes to null, and the
\* webhook invocation that received it changes no table
C36_CallbackDataRoundTrips ==
    [][IF DOMAIN log' = {} THEN TRUE
       ELSE /\ log'.sent # <<>> => log'.decoded = log'.sent
            /\ log'.parts # <<>>
                  /\ (Len(log'.parts) < 3 \/ log'.parts[1] \notin ActionWords)
                  => log'.decoded = <<>>
            /\ log'.decoded = <<>>
                  => /\ store' = store
                     /\ \A h \in Handlers : hs'[h].pc \in {"idle", "answer"}]_vars

\* the button of the stored candidate reddit:r1 was pressed, its data was
\* decoded to what the button held and the candidate was found under it
C36_Witness ==
    /\ DOMAIN log # {}
    /\ IF DOMAIN log = {} THEN FALSE
       ELSE /\ log.sent # <<>>
            /\ log.decoded = log.sent
            /\ log.sent[1].postId = <<"reddit", ":", "r1">>
            /\ \E h \in Handlers : hs[h].pending # <<>>

\* C37: overlapping scan ticks never duplicate a candidate: a post enters a
\* tick (is ranked and kept for reply generation and presentation) only in
\* the step in which that tick's fetch returns, only if no tick has ranked
\* it before, and it is marked in that same step; markers stay, no two ticks
\* hold the same post, and a candidate is stored for presentation only by
\* the tick that holds it
C37_NoDuplicateAcrossTicks ==
    [][/\ \A s \in Tickers :
             \A postId \in Held(scans'[s]) \ Held(scans[s]) :
                 /\ scans[s].pc = "fetch"
                 /\ ~Marked(postId)
                 /\ MarkedAfter(postId)
                 /\ \A t \in Tickers \ {s} : postId \notin Held(scans[t])
       /\ \A postId \in PostIds :
             /\ Marked(postId) => MarkedAfter(postId)
             /\ MarkedAfter(postId) /\ ~Marked(postId)
                   => \E s \in Tickers : scans[s].pc = "fetch" /\ scans'[s] # scans[s]
             /\ (postId \in DOMAIN pending_replies' /\ postId \notin DOMAIN pending_replies)
                   => \E s \in Tickers : scans'[s] # scans[s] /\ postId \in Held(scans[s])
       /\ \A s \in Tickers : \A t \in Tickers \ {s} :
             Held(scans'[s]) \cap Held(scans'[t]) = {}]_vars

\* one tick holds reddit:r1 for generation while the other, still running,
\* has fetched it as well and found nothing new
C37_Witness ==
    /\ scans[1].pc = "generate"
    /\ <<"reddit", "r1">> \in Held(scans[1])
    /\ scans[2].pc # "idle"
    /\ \E k \in 1..Len(scans[2].results) :
          /\ scans[2].results[k].platform = "reddit"
          /\ scans[2].results[k].postsScanned = 1
          /\ scans[2].results[k].postsNew = 0

\* C38: a finished candidate is not recreated: a live pending candidate's
\* postId always has an unexpired processed marker; a post enters a scan
\* tick only when the tick's fetch returns, only if it has no unexpired
\* marker and no live candidate, and it is marked in that step; and a
\* candidate is stored only for a post the tick holds, under a marker that
\* outlives the candidate
C38_FinishedNotRecreated ==
    [][/\ \A postId \in PostIds :
             (postId \in DOMAIN pending_replies'
                 /\ now' < pending_replies'[postId].expires_at)
                => MarkedAfter(postId)
       /\ \A s \in Scanners :
             \A postId \in Held(scans'[s]) \ Held(scans[s]) :
                 /\ scans[s].pc = "fetch"
                 /\ ~Marked(postId)
                 /\ MarkedAfter(postId)
                 /\ ~Live(postId)
       /\ \A postId \in PostIds :
             (\/ postId \notin DOMAIN pending_replies /\ postId \in DOMAIN pending_replies'
              \/ /\ postId \in DOMAIN pending_replies /\ postId \in DOMAIN pending_replies'
                 /\ pending_replies'[postId] # pending_replies[postId])
                => \E s \in Scanners :
                      /\ postId \in Held(scans[s])
                      /\ Marked(postId)
                      /\ processed_posts[postId].expires_at
                            >= pending_replies'[postId].expires_at]_vars

\* reddit:r1 was presented and posted, and the second tick has fetched it
\* again and found nothing new
C38_Witness ==
    /\ scans["cron"].tick = 2
    /\ \E k \in 1..Len(scans["cron"].results) :
          /\ scans["cron"].results[k].platform = "reddit"
          /\ scans["cron"].results[k].postsScanned = 1
          /\ scans["cron"].results[k].postsNew = 0
    /\ getDailyPostCount(daily_counts, "reddit", now) = 1
    /\ <<"reddit", "r1">> \notin DOMAIN pending_replies
    /\ Marked(<<"reddit", "r1">>)

\* C39: daily counts are per UTC day and monotone within it: while the UTC
\* date stays the same the count read for a platform never decreases, a call
\* of incrementDailyPostCount writes and returns the count read before plus
\* one, and in the step in which the UTC date changes the count read for
\* every platform is 0 and canPostToday answers true
C39_DailyCountsPerUtcDay ==
    [][\A platform \in SocialPlatforms :
          LET key == <<platform, Today(now)>>
              before == getDailyPostCount(daily_counts, platform, now)
              after == getDailyPostCount(daily_counts', platform, now')
              called == IF key \notin DOMAIN log' THEN FALSE
                        ELSE IF key \notin DOMAIN log THEN TRUE
                        ELSE log'[key] # log[key]
          IN  /\ Today(now') = Today(now) => after >= before
              /\ called => /\ after = before + 1
                           /\ daily_counts'[key].count = before + 1
              /\ Today(now') # Today(now)
                    => /\ after = 0
                       /\ canPostToday(daily_counts', platform, MAX_PER_DAY, now')]_vars

\* a new UTC day has begun: yesterday's row of a platform holds the full
\* quota and has not expired, and the count read today is 0
C39_Witness ==
    \E platform \in SocialPlatforms :
       LET yesterday == <<platform, Today(now) - 1>>
       IN  /\ yesterday \in DOMAIN daily_counts
           /\ IF yesterday \notin DOMAIN daily_counts THEN FALSE
              ELSE /\ daily_counts[yesterday].count = MAX_PER_DAY
                   /\ daily_counts[yesterday].expires_at > now
           /\ getDailyPostCount(daily_counts, platform, now) = 0
           /\ canPostToday(daily_counts, platform, MAX_PER_DAY, now)

\* C40: no candidate stays pending forever: with time advancing, a candidate
\* that getPendingReply returns is eventually no longer returned, whether or
\* not a decision, a further store or a sweep occurs
C40_NoCandidatePendingForever ==
    \A postId \in PostIds :
       (getPendingReply(pending_replies, postId, now) # <<>>)
          ~> (getPendingReply(pending_replies, postId, now) = <<>>)

\* 24 hours have passed since reddit:r1 was stored: no decision and no sweep
\* removed its row, and it is no longer retrievable
C40_Witness ==
    /\ <<"reddit", "r1">> \in DOMAIN pending_replies
    /\ IF <<"reddit", "r1">> \notin DOMAIN pending_replies THEN FALSE
       ELSE now >= pending_replies[<<"reddit", "r1">>].created_at + PENDING_TTL_MS
    /\ getPendingReply(pending_replies, <<"reddit", "r1">>, now) = <<>>

====
